---- MODULE Spec2Model ----
(***************************************************************************)
(* Model of the JSON record store (src/database.py, class Database) and of *)
(* the authentication module built on it (src/auth.py, class AuthSystem).  *)
(*                                                                         *)
(* The Database methods are operators on the store object                  *)
(* st = [data, stats, file]; the AuthSystem methods are operators on the   *)
(* object a = [db, sessions, current_user, current_session, draws,         *)
(* exported] that call them exactly as the code does.  Each returns the    *)
(* object after the call and the value the call returns, so a claim about  *)
(* a call is a statement about that operator in every reachable state.     *)
(* Every public method is one action.  time.time() is the variable now;    *)
(* one call of a method reads one clock value.                             *)
(*                                                                         *)
(* Left out: the usage statistics total_queries, total_time_spent and      *)
(* last_operation_at (written by select and _measure_time, read only by    *)
(* get_stats), and db_name in the saved document.                          *)
(***************************************************************************)
EXTENDS Integers, Sequences, FiniteSets, TLC

VARIABLES
    db,               \* the Database object: data (tables), stats, file (the JSON document on disk)
    now,              \* time.time()
    returned,         \* history: per table, the ids insert returned, in call order
    everIds,          \* history: per table, every id a record of the table ever carried
    sessions,         \* AuthSystem.sessions: token -> session data
    current_user,     \* AuthSystem.current_user: <<>> for None, <<user>> for a user record
    current_session,  \* AuthSystem.current_session
    draws,            \* number of os.urandom draws so far (salts and session tokens)
    exported,         \* the calls of save_user_to_file, in order
    boot,             \* login_history length, total_updates and number of sessions rows
                      \* when the AuthSystem was constructed
    ticks,            \* number of clock advances seen by the AuthSystem
    callers           \* concurrent callers: where each is in its call, and its local variables

vars == <<db, now, returned, everIds, sessions, current_user, current_session,
          draws, exported, boot, ticks, callers>>

storeHistory == <<returned, everIds>>

authVars == <<sessions, current_user, current_session, draws, exported, boot, ticks, callers>>

(***************************************************************************)
(* Bounds of the model.                                                    *)
(***************************************************************************)
MaxInserts == 2     \* insert calls in the store specification
MaxUpdates == 1     \* records updated in the store specification
MaxStoreTime == 1   \* last clock value in the store specification
MaxHistory == 2     \* login_history entries added after construction
MaxAuthUpdates == 3 \* records updated after construction by the authentication module
MaxLogins == 2      \* rows of the sessions table
MaxTicks == 2       \* clock advances in the authentication specification

(***************************************************************************)
(* Python values.                                                          *)
(***************************************************************************)
\* None: a value different from every id, timestamp, token and field value used.
None == 0 - 1

\* None where the other values are texts or records: no text, no record.
NoText == <<>>

\* dict.get(k): the value, or None when the key is missing.
Get(rec, k) == IF k \in DOMAIN rec THEN rec[k] ELSE None

\* dict.get(k, default)
GetOr(rec, k, default) == IF k \in DOMAIN rec THEN rec[k] ELSE default

\* {**a, **b} and a.update(b): the keys of b win.
Merge(a, b) == [k \in DOMAIN a \cup DOMAIN b |-> IF k \in DOMAIN b THEN b[k] ELSE a[k]]

\* d[k] = v
Put(d, k, v) == [x \in DOMAIN d \cup {k} |-> IF x = k THEN v ELSE d[x]]

\* del d[k]
Del(d, k) == [x \in DOMAIN d \ {k} |-> d[x]]

\* {}
EmptyDict == [x \in {} |-> None]

\* time.strftime("%Y-%m-%d %H:%M:%S", time.localtime(t)): the text of t.
Strftime(t) == <<"%Y-%m-%d %H:%M:%S", t>>

\* [r for r in s if r in keep], order kept.
RECURSIVE SelectSeq2(_, _)
SelectSeq2(s, keep) ==
    IF s = <<>> THEN <<>>
    ELSE IF Head(s) \in keep THEN <<Head(s)>> \o SelectSeq2(Tail(s), keep)
         ELSE SelectSeq2(Tail(s), keep)

(***************************************************************************)
(* Database                                                                *)
(***************************************************************************)
\* Database.__init__ with no file at db_path: _load leaves data empty.
NewDatabase(t) ==
    [data  |-> EmptyDict,
     stats |-> [total_inserts |-> 0, total_updates |-> 0, total_deletes |-> 0, created_at |-> t],
     file  |-> [exists |-> FALSE, content |-> "document", saved_at |-> None, tables |-> EmptyDict,
                stats |-> [total_inserts |-> 0, total_updates |-> 0, total_deletes |-> 0,
                           created_at |-> t]]]

\* JSON null
JsonNull == 0 - 2

\* the fields the model stores None in (a number or None), and those it
\* stores "no text" in
NullableNumbers == {"id", "x", "y", "user_id", "last_login"}
NullableTexts == {"last_login_formatted"}

\* json.dump of one field of a record: None is written as null
JsonDumpValue(k, v) ==
    IF k \in NullableNumbers THEN (IF v = None THEN JsonNull ELSE v)
    ELSE IF k \in NullableTexts THEN (IF v = NoText THEN <<"null">> ELSE v)
    ELSE v

\* json.load of one field of a record: null is read as None
JsonLoadValue(k, v) ==
    IF k \in NullableNumbers THEN (IF v = JsonNull THEN None ELSE v)
    ELSE IF k \in NullableTexts THEN (IF v = <<"null">> THEN NoText ELSE v)
    ELSE v

\* json.dump of self.data: every table, its records in list order
JsonDump(data) ==
    [n \in DOMAIN data |->
        [data[n] EXCEPT !.records =
            [i \in 1..Len(data[n].records) |->
                [k \in DOMAIN data[n].records[i] |-> JsonDumpValue(k, data[n].records[i][k])]]]]

\* json.load of the "tables" member of the document
JsonLoad(tables) ==
    [n \in DOMAIN tables |->
        [tables[n] EXCEPT !.records =
            [i \in 1..Len(tables[n].records) |->
                [k \in DOMAIN tables[n].records[i] |-> JsonLoadValue(k, tables[n].records[i][k])]]]]

\* Database._save: the whole document is rewritten.
Save(st, t) ==
    [st EXCEPT !.file = [exists |-> TRUE, content |-> "document", saved_at |-> t,
                         tables |-> JsonDump(st.data), stats |-> st.stats]]

\* what the file at db_path can hold: the document _save writes, a JSON
\* object without "tables" and "stats", a JSON array, or text that is no JSON
Contents == {"document", "object", "array", "garbage"}

\* Database._load raises: json.load yields a list, saved.get is an
\* AttributeError, and "except (json.JSONDecodeError, IOError)" lets it pass
LoadRaises(file) == file.exists /\ file.content = "array"

\* Database._load: the document a previous process saved is read; text that
\* is no JSON is caught and leaves data empty; an object without "tables"
\* gives saved.get("tables", {}) = {} and keeps the new stats.  (When _load
\* raises, no attribute was assigned.)
Load(st) ==
    IF ~st.file.exists \/ LoadRaises(st.file) THEN st
    ELSE IF st.file.content = "document"
    THEN [st EXCEPT !.data = JsonLoad(st.file.tables), !.stats = st.file.stats]
    ELSE [st EXCEPT !.data = EmptyDict]

\* Database.__init__ on a db_path holding file: the object, unless _load raised
Construct(file, t) ==
    [raised |-> LoadRaises(file), st |-> Load([NewDatabase(t) EXCEPT !.file = file])]

\* Database.__init__ on the db_path another Database object wrote to
Reopen(st, t) == Construct(st.file, t).st

\* all(record.get(k) == v for k, v in conditions.items())
Matches(record, conditions) == \A k \in DOMAIN conditions : Get(record, k) = conditions[k]

\* mutation of CreateTable: an existing table is replaced by an empty one
CreateTableReplaces(st, table_name, columns, t) ==
    LET table == [columns |-> columns, records |-> <<>>, auto_increment |-> 1,
                  created_at |-> t, created_at_formatted |-> Strftime(t),
                  modified_at |-> t, record_count |-> 0]
    IN [st |-> Save([st EXCEPT !.data = Put(st.data, table_name, table)], t),
        value |-> table_name \notin DOMAIN st.data]

\* Database.create_table
CreateTable(st, table_name, columns, t) ==
    IF table_name \in DOMAIN st.data
    THEN [st |-> st, value |-> FALSE]
    ELSE LET table == [columns |-> columns, records |-> <<>>, auto_increment |-> 1,
                       created_at |-> t, created_at_formatted |-> Strftime(t),
                       modified_at |-> t, record_count |-> 0]
             st1 == Save([st EXCEPT !.data = Put(st.data, table_name, table)], t)
         IN [st |-> st1, value |-> TRUE]

\* Database.drop_table (not wrapped by _measure_time)
DropTable(st, table_name, t) ==
    IF table_name \notin DOMAIN st.data
    THEN [st |-> st, value |-> FALSE]
    ELSE [st |-> Save([st EXCEPT !.data = Del(st.data, table_name)], t), value |-> TRUE]

\* The record insert builds: {"id": auto_increment, **record, "_created_at": ..., ...}.
NewRecord(auto_increment, record, t) ==
    Merge(Merge("id" :> auto_increment, record),
          [k \in {"_created_at", "_created_at_formatted", "_modified_at", "_modified_at_formatted"} |->
              IF k \in {"_created_at", "_modified_at"} THEN t ELSE Strftime(t)])

\* Database.insert
Insert(st, table_name, record, t) ==
    IF table_name \notin DOMAIN st.data
    THEN [st |-> st, value |-> None]
    ELSE LET table == st.data[table_name]
             new_record == NewRecord(table.auto_increment, record, t)
             records == Append(table.records, new_record)
             table1 == [table EXCEPT !.records = records,
                                     !.auto_increment = @ + 1,
                                     !.record_count = Len(records),
                                     !.modified_at = t]
             st1 == Save([st EXCEPT !.data[table_name] = table1,
                                    !.stats.total_inserts = @ + 1], t)
         IN [st |-> st1, value |-> new_record["id"]]

\* results[:limit] for limit >= 0
Take(s, limit) == SubSeq(s, 1, IF limit < Len(s) THEN limit ELSE Len(s))

\* Database.select without order_by: filter, then limit.
\* limit is None or an integer >= 0; "if limit:" skips None and 0.
Select(st, table_name, conditions, limit, t) ==
    IF table_name \notin DOMAIN st.data
    THEN [st |-> st, value |-> <<>>]
    ELSE LET records == st.data[table_name].records
             filtered == IF DOMAIN conditions # {}
                         THEN SelectSeq2(records, {r \in {records[i] : i \in 1..Len(records)} :
                                                       Matches(r, conditions)})
                         ELSE records
             results == IF limit # None /\ limit # 0 THEN Take(filtered, limit) ELSE filtered
         IN [st |-> st, value |-> results]

\* Database.select_one: the first match, or None (<<record>> for a record, <<>> for None).
SelectOne(st, table_name, conditions, t) == Select(st, table_name, conditions, 1, t)

\* the order_by arguments: "" stands for None (both skip "if order_by:")
OrderBys == {"", "x", "-x", "id", "-id"}

\* order_by.startswith("-")
Descending(order_by) == order_by \in {"-x", "-id"}

\* order_by[1:] when it starts with "-", else order_by
SortField(order_by) == IF order_by \in {"x", "-x"} THEN "x" ELSE "id"

\* the type of the sort key x.get(order_by, ""): the field's value, or ""
KeyType(record, f) ==
    IF f \notin DOMAIN record THEN "str" ELSE IF record[f] = None THEN "NoneType" ELSE "int"

\* list.sort raises TypeError: two keys are compared and '<' is not
\* supported between them (int and str, or None and anything)
SortRaises(results, f) ==
    /\ Len(results) >= 2
    /\ \/ \E i \in 1..Len(results) : KeyType(results[i], f) = "NoneType"
       \/ \E i, j \in 1..Len(results) : KeyType(results[i], f) # KeyType(results[j], f)

\* the key as a number, for keys of one type: "" = "" for all the missing ones
KeyOf(record, f) == IF f \in DOMAIN record THEN record[f] ELSE 0

\* list.sort(key=..., reverse=...) for comparable keys: stable in both directions
RECURSIVE Sorted(_, _, _)
Sorted(results, f, reverse) ==
    IF results = <<>>
    THEN <<>>
    ELSE LET n == Len(results)
             last == results[n]
             rest == Sorted(SubSeq(results, 1, n - 1), f, reverse)
             \* the elements last goes behind: all that do not come after it
             ahead == {i \in 1..Len(rest) :
                          IF reverse THEN KeyOf(rest[i], f) >= KeyOf(last, f)
                                     ELSE KeyOf(rest[i], f) <= KeyOf(last, f)}
             k == Cardinality(ahead)
         IN SubSeq(rest, 1, k) \o <<last>> \o SubSeq(rest, k + 1, Len(rest))

\* Database.select with order_by: filter, then sort, then limit
SelectOrderBy(st, table_name, conditions, limit, order_by, t) ==
    IF table_name \notin DOMAIN st.data
    THEN [st |-> st, raised |-> FALSE, value |-> <<>>]
    ELSE LET filtered == Select(st, table_name, conditions, None, t).value
         IN IF order_by # "" /\ SortRaises(filtered, SortField(order_by))
            THEN [st |-> st, raised |-> TRUE]
            ELSE LET results == IF order_by # ""
                                THEN Sorted(filtered, SortField(order_by), Descending(order_by))
                                ELSE filtered
                 IN [st |-> st, raised |-> FALSE,
                     value |-> IF limit # None /\ limit # 0 THEN Take(results, limit) ELSE results]

\* What update does to one matching record.
UpdatedRecord(record, new_values, t) ==
    Merge(Merge(record, new_values),
          [k \in {"_modified_at", "_modified_at_formatted"} |->
              IF k = "_modified_at" THEN t ELSE Strftime(t)])

\* Database.update
Update(st, table_name, conditions, new_values, t) ==
    IF table_name \notin DOMAIN st.data
    THEN [st |-> st, value |-> 0]
    ELSE LET table == st.data[table_name]
             hit == {i \in 1..Len(table.records) : Matches(table.records[i], conditions)}
             records == [i \in 1..Len(table.records) |->
                            IF i \in hit THEN UpdatedRecord(table.records[i], new_values, t)
                            ELSE table.records[i]]
             updated == Cardinality(hit)
             st1 == IF updated > 0
                    THEN Save([st EXCEPT !.data[table_name].records = records,
                                         !.data[table_name].modified_at = t,
                                         !.stats.total_updates = @ + updated], t)
                    ELSE st
         IN [st |-> st1, value |-> updated]

\* mutation of Delete: the document is not rewritten
DeleteUnsaved(st, table_name, conditions, t) ==
    IF table_name \notin DOMAIN st.data
    THEN [st |-> st, value |-> 0]
    ELSE LET table == st.data[table_name]
             records == SelectSeq2(table.records,
                                   {r \in {table.records[i] : i \in 1..Len(table.records)} :
                                       ~Matches(r, conditions)})
             deleted == Len(table.records) - Len(records)
         IN [st |-> [st EXCEPT !.data[table_name].records = records,
                               !.data[table_name].record_count = Len(records),
                               !.stats.total_deletes = @ + deleted],
             value |-> deleted]

\* Database.delete
Delete(st, table_name, conditions, t) ==
    IF table_name \notin DOMAIN st.data
    THEN [st |-> st, value |-> 0]
    ELSE LET table == st.data[table_name]
             kept == {i \in 1..Len(table.records) : ~Matches(table.records[i], conditions)}
             RECURSIVE Keep(_)
             Keep(i) == IF i > Len(table.records) THEN <<>>
                        ELSE (IF i \in kept THEN <<table.records[i]>> ELSE <<>>) \o Keep(i + 1)
             records == Keep(1)
             deleted == Len(table.records) - Len(records)
             st1 == IF deleted > 0
                    THEN Save([st EXCEPT !.data[table_name].records = records,
                                         !.data[table_name].record_count = Len(records),
                                         !.data[table_name].modified_at = t,
                                         !.stats.total_deletes = @ + deleted], t)
                    ELSE [st EXCEPT !.data[table_name].records = records]
         IN [st |-> st1, value |-> deleted]

(***************************************************************************)
(* The store specification: a caller of the Database operations on the     *)
(* tables TableNames, with records over Fields.                            *)
(***************************************************************************)
TableNames == {"t"}
Fields == {"id", "x"}
Values == {1, 2, None}

\* the dicts over the given keys
Dicts(keys) == UNION {[ks -> Values] : ks \in SUBSET keys}

\* the dicts a caller passes as record, as conditions and as new_values
Records == Dicts(Fields)
Conditions == Dicts({"id"}) \cup Dicts({"x"}) \cup Dicts({"y"})
NewValues == Dicts({"id"}) \cup Dicts({"x"}) \cup Dicts({"_created_at"})

\* the ids of the records of a table
Ids(table) == {table.records[i]["id"] : i \in 1..Len(table.records)}

\* history kept after a call: the ids now in the tables join everIds
Seen(data, seen) ==
    [n \in DOMAIN data |-> Ids(data[n]) \cup (IF n \in DOMAIN seen THEN seen[n] ELSE {})]

Init ==
    /\ now = 0
    /\ db = NewDatabase(0)
    /\ returned = EmptyDict
    /\ everIds = EmptyDict
    /\ sessions = EmptyDict
    /\ current_user = <<>>
    /\ current_session = None
    /\ draws = 0
    /\ exported = <<>>
    /\ boot = [history |-> 0, updates |-> 0, sessions |-> 0]
    /\ ticks = 0
    /\ callers = <<>>

StoreTick ==
    /\ now < MaxStoreTime
    /\ now' = now + 1
    /\ UNCHANGED <<db, storeHistory, authVars>>

CreateTableOp(name) ==
    LET r == CreateTable(db, name, <<"x">>, now)
    IN /\ db' = r.st
       /\ returned' = IF r.value THEN Put(returned, name, <<>>) ELSE returned
       /\ everIds' = IF r.value THEN Put(everIds, name, {}) ELSE everIds
       /\ UNCHANGED <<now, authVars>>

DropTableOp(name) ==
    LET r == DropTable(db, name, now)
    IN /\ db' = r.st
       /\ returned' = IF r.value THEN Del(returned, name) ELSE returned
       /\ everIds' = IF r.value THEN Del(everIds, name) ELSE everIds
       /\ UNCHANGED <<now, authVars>>

InsertOp(name, record) ==
    LET r == Insert(db, name, record, now)
    IN /\ db.stats.total_inserts < MaxInserts
       /\ db' = r.st
       /\ returned' = IF r.value # None THEN [returned EXCEPT ![name] = Append(@, r.value)]
                      ELSE returned
       /\ everIds' = Seen(r.st.data, everIds)
       /\ UNCHANGED <<now, authVars>>

SelectOp(name, conditions, limit) ==
    LET r == Select(db, name, conditions, limit, now)
    IN /\ db' = r.st
       /\ UNCHANGED <<now, storeHistory, authVars>>

SelectOrderByOp(name, conditions, limit, order_by) ==
    LET r == SelectOrderBy(db, name, conditions, limit, order_by, now)
    IN /\ db' = r.st
       /\ UNCHANGED <<now, storeHistory, authVars>>

UpdateOp(name, conditions, new_values) ==
    LET r == Update(db, name, conditions, new_values, now)
    IN /\ db.stats.total_updates + r.value <= MaxUpdates
       /\ db' = r.st
       /\ everIds' = Seen(r.st.data, everIds)
       /\ UNCHANGED <<now, returned, authVars>>

DeleteOp(name, conditions) ==
    LET r == Delete(db, name, conditions, now)
    IN /\ db' = r.st
       /\ UNCHANGED <<now, storeHistory, authVars>>

\* a new Database object on the same db_path
ReopenOp ==
    /\ db' = Reopen(db, now)
    /\ UNCHANGED <<now, storeHistory, authVars>>

Next ==
    \/ StoreTick
    \/ ReopenOp
    \/ \E name \in TableNames : CreateTableOp(name)
    \/ \E name \in TableNames : DropTableOp(name)
    \/ \E name \in TableNames, record \in Records : InsertOp(name, record)
    \/ \E name \in TableNames, conditions \in Conditions, limit \in {None, 0, 1} :
          SelectOp(name, conditions, limit)
    \/ \E name \in TableNames, conditions \in Conditions, limit \in {None, 0, 1},
          order_by \in OrderBys : SelectOrderByOp(name, conditions, limit, order_by)
    \/ \E name \in TableNames, conditions \in Conditions, new_values \in NewValues :
          UpdateOp(name, conditions, new_values)
    \/ \E name \in TableNames, conditions \in Conditions : DeleteOp(name, conditions)

Spec == Init /\ [][Next]_vars

(***************************************************************************)
(* Claims about the record store (specification Spec).                     *)
(***************************************************************************)
\* s has no element twice
NoDuplicates(s) == \A i, j \in 1..Len(s) : i # j => s[i] # s[j]

\* the ids of the records of a table, in order
IdSeq(table) == [i \in 1..Len(table.records) |-> table.records[i]["id"]]

\* C1: in every reachable state, for every table, auto_increment is strictly
\* greater than the id of every record ever stored in that table, whatever the
\* caller-supplied record contents are (records carrying an "id" included).
C1_AutoIncrementAboveEveryId ==
    \A n \in DOMAIN db.data : \A i \in everIds[n] : db.data[n].auto_increment > i

\* C2: within one table no two records have the same id, and update leaves the
\* id and _created_at of every record as they were, whatever new_values holds.
C2_IdUniqueAndImmutable ==
    \A n \in DOMAIN db.data :
        /\ NoDuplicates(IdSeq(db.data[n]))
        /\ \A conditions \in Conditions, new_values \in NewValues :
              LET before == db.data[n].records
                  after == Update(db, n, conditions, new_values, now).st.data[n].records
              IN \A i \in 1..Len(before) :
                    /\ after[i]["id"] = before[i]["id"]
                    /\ after[i]["_created_at"] = before[i]["_created_at"]
                    /\ after[i]["_created_at_formatted"] = before[i]["_created_at_formatted"]

\* C3: after N inserts and no delete, auto_increment = N + 1 and the ids are
\* exactly 1..N; delete never decreases auto_increment; an id insert returned
\* is never returned by a later insert.
C3_IdsMonotoneNeverReused ==
    \A n \in DOMAIN db.data :
        /\ NoDuplicates(returned[n])
        /\ db.stats.total_deletes = 0 =>
              /\ db.data[n].auto_increment = Len(returned[n]) + 1
              /\ Ids(db.data[n]) = 1..Len(returned[n])
        /\ \A conditions \in Conditions :
              Delete(db, n, conditions, now).st.data[n].auto_increment >= db.data[n].auto_increment

\* the tables of st and those of the document st wrote are the same: same
\* names, same records in the same order, same auto_increment
OnDisk(st) ==
    LET tables == IF st.file.exists THEN JsonLoad(st.file.tables) ELSE EmptyDict
    IN /\ DOMAIN tables = DOMAIN st.data
       /\ \A n \in DOMAIN st.data :
             /\ tables[n].records = st.data[n].records
             /\ tables[n].auto_increment = st.data[n].auto_increment

\* the call wrote the document at time t
Wrote(st, t) == st.file.exists /\ st.file.saved_at = t /\ st.file.tables = JsonDump(st.data)

\* the table names callers pass: those of the specification and one never created
AnyTableNames == TableNames \cup {"u"}

\* C13: after every store call the tables of the on-disk document equal the
\* in-memory tables: create_table, drop_table, insert and each update or
\* delete that changed a record rewrite the document before returning;
\* select, select_one and an update or delete that matched nothing write
\* nothing.
C13_DocumentFollowsMemory ==
    /\ OnDisk(db)
    /\ \A name \in AnyTableNames :
          /\ LET r == CreateTable(db, name, <<"x">>, now)
             IN OnDisk(r.st) /\ (r.value => Wrote(r.st, now))
          /\ LET r == DropTable(db, name, now)
             IN OnDisk(r.st) /\ (r.value => Wrote(r.st, now))
          /\ \A record \in Records :
                LET r == Insert(db, name, record, now)
                IN OnDisk(r.st) /\ (r.value # None => Wrote(r.st, now))
          /\ \A conditions \in Conditions :
                /\ \A limit \in {None, 0, 1} : Select(db, name, conditions, limit, now).st = db
                /\ SelectOne(db, name, conditions, now).st = db
                /\ LET r == Delete(db, name, conditions, now)
                   IN /\ OnDisk(r.st)
                      /\ IF r.value > 0 THEN Wrote(r.st, now) ELSE r.st.file = db.file
                /\ \A new_values \in NewValues :
                      LET r == Update(db, name, conditions, new_values, now)
                      IN /\ OnDisk(r.st)
                         /\ IF r.value > 0 THEN Wrote(r.st, now) ELSE r.st.file = db.file

\* C13's case: records were inserted, updated and deleted, and the document
\* was last written at an earlier clock value than now.
C13_Witness ==
    /\ db.file.exists
    /\ db.file.saved_at < now
    /\ db.stats.total_updates > 0
    /\ db.stats.total_deletes > 0
    /\ \E n \in DOMAIN db.data : db.data[n].records # <<>>

\* C14: round trip: a new store constructed on the persisted document has,
\* for every table, the same records in the same order and the same
\* auto_increment as the store that wrote it, so an id assigned after the
\* reload is never one that was assigned before it.
C14_ReloadRoundTrip ==
    LET reloaded == Reopen(db, now)
    IN /\ DOMAIN reloaded.data = DOMAIN db.data
       /\ \A n \in DOMAIN db.data :
             /\ reloaded.data[n].records = db.data[n].records
             /\ reloaded.data[n].auto_increment = db.data[n].auto_increment
             /\ \A record \in Records, i \in 1..Len(returned[n]) :
                   Insert(reloaded, n, record, now).value # returned[n][i]

\* a record has every field of conditions with exactly that value
HasAll(record, conditions) ==
    \A k \in DOMAIN conditions : k \in DOMAIN record /\ record[k] = conditions[k]

\* C15: select(table, {}) returns all records in insertion order; a
\* condition on a field no record of the table has selects nothing, whatever
\* the required value (None included); in general a record is selected iff
\* it has every field of conditions with exactly that value.
C15_SelectExactMatch ==
    \A n \in DOMAIN db.data :
        LET records == db.data[n].records
        IN /\ Select(db, n, EmptyDict, None, now).value = records
           /\ \A conditions \in Conditions :
                 LET value == Select(db, n, conditions, None, now).value
                 IN /\ value = SelectSeq2(records, {r \in {records[i] : i \in 1..Len(records)} :
                                                      HasAll(r, conditions)})
                    /\ (\E k \in DOMAIN conditions :
                           \A i \in 1..Len(records) : k \notin DOMAIN records[i]) => value = <<>>

\* C16: table-level failures are no-ops: create_table on an existing name
\* returns false, drop_table on an absent name returns false, insert into an
\* absent table returns None, select on it returns the empty sequence, update
\* and delete on it return 0, and none of them changes or creates a table; a
\* successful create_table yields an empty table with auto_increment = 1 and
\* leaves the other tables alone.
C16_TableFailuresAreNoOps ==
    \A name \in AnyTableNames :
        LET created == CreateTable(db, name, <<"x">>, now)
        IN IF name \in DOMAIN db.data
           THEN /\ created.value = FALSE
                /\ created.st = db
           ELSE /\ created.value = TRUE
                /\ DOMAIN created.st.data = DOMAIN db.data \cup {name}
                /\ created.st.data[name].records = <<>>
                /\ created.st.data[name].auto_increment = 1
                /\ \A other \in DOMAIN db.data : created.st.data[other] = db.data[other]
                /\ DropTable(db, name, now) = [st |-> db, value |-> FALSE]
                /\ \A record \in Records :
                      Insert(db, name, record, now) = [st |-> db, value |-> None]
                /\ \A conditions \in Conditions :
                      /\ Select(db, name, conditions, None, now) = [st |-> db, value |-> <<>>]
                      /\ Delete(db, name, conditions, now) = [st |-> db, value |-> 0]
                      /\ \A new_values \in NewValues :
                            Update(db, name, conditions, new_values, now) =
                               [st |-> db, value |-> 0]

\* C16's case: a table that held records was dropped, so calls on its name
\* now fail, and a create_table on it starts again from an empty table.
C16_Witness ==
    /\ db.file.exists
    /\ db.stats.total_inserts > 0
    /\ \E name \in TableNames : name \notin DOMAIN db.data

\* the forms the persisted state can have at start-up, around the file at hand
PersistedStates ==
    {[db.file EXCEPT !.exists = exists, !.content = content] :
        exists \in BOOLEAN, content \in Contents}

\* C23: store start-up never fails: whatever the persisted state is (file
\* missing, not parseable as JSON, parseable but not the expected document,
\* such as a JSON array or an object without "tables"), constructing the
\* store completes, and when the state is missing or malformed the
\* in-memory table map is empty.
C23_StartupNeverFails ==
    \A file \in PersistedStates :
        LET started == Construct(file, now)
        IN /\ ~started.raised
           /\ (~file.exists \/ file.content # "document") => started.st.data = EmptyDict

\* the fields update itself stamps
Stamps == {"_modified_at", "_modified_at_formatted"}

\* C25: update(table, conditions, new_values) changes exactly the records
\* matching every condition: in each, every key of new_values has its new
\* value, the other fields keep theirs and _modified_at is the current time;
\* the other records are unchanged; it returns the number of matching
\* records and total_updates grows by it.  With a clock that never goes back
\* every record has _modified_at >= _created_at in every reachable state.
C25_UpdateChangesTheMatching ==
    \A n \in DOMAIN db.data :
        LET before == db.data[n].records
        IN /\ \A i \in 1..Len(before) : before[i]["_modified_at"] >= before[i]["_created_at"]
           /\ \A conditions \in Conditions, new_values \in NewValues :
                 LET r == Update(db, n, conditions, new_values, now)
                     after == r.st.data[n].records
                     matching == {i \in 1..Len(before) : HasAll(before[i], conditions)}
                 IN /\ Len(after) = Len(before)
                    /\ r.value = Cardinality(matching)
                    /\ r.st.stats.total_updates = db.stats.total_updates + r.value
                    /\ \A i \in 1..Len(before) :
                          IF i \in matching
                          THEN /\ DOMAIN after[i] = DOMAIN before[i] \cup DOMAIN new_values
                               /\ \A k \in DOMAIN new_values \ Stamps : after[i][k] = new_values[k]
                               /\ \A k \in DOMAIN before[i] \ (DOMAIN new_values \cup Stamps) :
                                     after[i][k] = before[i][k]
                               /\ after[i]["_modified_at"] = now
                          ELSE after[i] = before[i]

(***************************************************************************)
(* AuthSystem                                                              *)
(***************************************************************************)
SESSION_TIMEOUT == 1800
MAX_FAILED_ATTEMPTS == 5
LOCKOUT_DURATION == 300
PASSWORD_MIN_LENGTH == 6

\* the strings callers pass, and len() of each
Usernames == {"alice", "bob", "al"}
Passwords == {"secret1", "hunter22", "abc"}
Roles == {"admin", "user"}
StrLen(str) ==
    CASE str = "al" -> 2
      [] str \in {"abc", "bob"} -> 3
      [] str \in {"alice", "Alice"} -> 5
      [] str = "secret1" -> 7
      [] str = "hunter22" -> 8

\* mutation of Fresh: os.urandom repeats itself, every draw is the first
FreshRepeats(a) == 1

\* os.urandom: the n-th draw yields bytes never drawn before; a salt and a
\* session token are the digest of their draw and are named by its number.
Fresh(a) == a.draws + 1

\* a token no login ever returned
ForgedToken == 0

\* AuthSystem._hash_password: an iterated SHA-256 of salt + password + salt,
\* collision-free: the digest is named by what it was computed from.
HashPassword(password, salt) == <<"sha256", password, salt>>

\* the AuthSystem object of the current state
Self ==
    [db |-> db, sessions |-> sessions, current_user |-> current_user,
     current_session |-> current_session, draws |-> draws, exported |-> exported]

\* the records of a table of the AuthSystem's store
Rows(a, table_name) == a.db.data[table_name].records

\* AuthSystem._setup_tables
SetupTables(st, t) ==
    LET st1 == CreateTable(st, "users",
                   <<"id", "username", "password_hash", "salt", "email", "role", "is_active",
                     "failed_attempts", "locked_until", "created_at", "last_login">>, t).st
        st2 == CreateTable(st1, "login_history",
                   <<"id", "user_id", "username", "action", "success", "ip_address",
                     "timestamp">>, t).st
    IN CreateTable(st2, "sessions",
                   <<"id", "user_id", "token", "created_at", "expires_at", "is_active">>, t).st

\* AuthSystem.__init__ on the store st
NewAuthSystem(st, t) ==
    [db |-> SetupTables(st, t), sessions |-> EmptyDict, current_user |-> <<>>,
     current_session |-> None, draws |-> 0, exported |-> <<>>]

\* mutation of LogAction: the entry replaces the earlier entries of the user
LogActionReplaces(a, user_id, username, action, success, t) ==
    [a EXCEPT !.db = Insert(Delete(a.db, "login_history", [username |-> username], t).st,
                            "login_history",
                            [user_id |-> user_id, username |-> username, action |-> action,
                             success |-> success, timestamp |-> t,
                             timestamp_formatted |-> Strftime(t)], t).st]

\* AuthSystem._log_action
LogAction(a, user_id, username, action, success, t) ==
    [a EXCEPT !.db = Insert(a.db, "login_history",
                            [user_id |-> user_id, username |-> username, action |-> action,
                             success |-> success, timestamp |-> t,
                             timestamp_formatted |-> Strftime(t)], t).st]

\* the outcome dicts the methods return
Failure(error, n) == [success |-> FALSE, error |-> error, n |-> n]

\* mutation of Register: no look-up of the username before the insert
RegisterUnchecked(a, username, password, email, role, t) ==
    IF StrLen(username) < 3
    THEN [a |-> a, value |-> Failure("Nazwa uzytkownika musi miec min. 3 znaki.", None)]
    ELSE IF StrLen(password) < PASSWORD_MIN_LENGTH
    THEN [a |-> a, value |-> Failure("Haslo musi miec min. znakow: ", PASSWORD_MIN_LENGTH)]
    ELSE LET salt == Fresh(a)
             ins == Insert(a.db, "users",
                           [username |-> username,
                            password_hash |-> HashPassword(password, salt),
                            salt |-> salt, email |-> email, role |-> role,
                            is_active |-> TRUE, failed_attempts |-> 0, locked_until |-> 0,
                            last_login |-> None, last_login_formatted |-> NoText], t)
             a1 == LogAction([a EXCEPT !.db = ins.st, !.draws = salt],
                             ins.value, username, "REGISTER", TRUE, t)
             a2 == [a1 EXCEPT !.exported = Append(@, <<username, email, role, ins.value>>)]
         IN [a |-> a2, value |-> [success |-> TRUE, user_id |-> ins.value]]

\* AuthSystem.register
Register(a, username, password, email, role, t) ==
    IF StrLen(username) < 3
    THEN [a |-> a, value |-> Failure("Nazwa uzytkownika musi miec min. 3 znaki.", None)]
    ELSE IF StrLen(password) < PASSWORD_MIN_LENGTH
    THEN [a |-> a, value |-> Failure("Haslo musi miec min. znakow: ", PASSWORD_MIN_LENGTH)]
    ELSE LET existing == SelectOne(a.db, "users", [username |-> username], t)
         IN IF existing.value # <<>>
            THEN [a |-> [a EXCEPT !.db = existing.st],
                  value |-> Failure("Uzytkownik o tej nazwie juz istnieje!", None)]
            ELSE LET salt == Fresh(a)
                     ins == Insert(existing.st, "users",
                                [username |-> username,
                                 password_hash |-> HashPassword(password, salt),
                                 salt |-> salt, email |-> email, role |-> role,
                                 is_active |-> TRUE, failed_attempts |-> 0, locked_until |-> 0,
                                 last_login |-> None, last_login_formatted |-> NoText], t)
                     a1 == LogAction([a EXCEPT !.db = ins.st, !.draws = salt],
                                     ins.value, username, "REGISTER", TRUE, t)
                     a2 == [a1 EXCEPT !.exported = Append(@, <<username, email, role, ins.value>>)]
                 IN [a |-> a2, value |-> [success |-> TRUE, user_id |-> ins.value]]

\* register(username, password): email and role take their defaults
\* ("def register(self, username, password, email='', role='user')")
RegisterDefault(a, username, password, t) == Register(a, username, password, "", "user", t)

\* mutation of ResetOnLogin: the lockout fields are left as they are
ResetOnLoginKeeps(t) == [last_login |-> t, last_login_formatted |-> Strftime(t)]

\* the values a successful login writes to the user (lines 211-216)
ResetOnLogin(t) ==
    [failed_attempts |-> 0, locked_until |-> 0, last_login |-> t,
     last_login_formatted |-> Strftime(t)]

\* AuthSystem.login after the password was verified (lines 209-251)
LoginSucceeds(a, user, username, t) ==
    LET upd == Update(a.db, "users", [id |-> user["id"]], ResetOnLogin(t), t)
        token == Fresh(a)
        session_data == [user_id |-> user["id"], username |-> username, role |-> user["role"],
                         token |-> token, created_at |-> t,
                         expires_at |-> t + SESSION_TIMEOUT, last_activity |-> t]
        ins == Insert(upd.st, "sessions",
                      [user_id |-> user["id"], token |-> token,
                       expires_at |-> t + SESSION_TIMEOUT, is_active |-> TRUE], t)
        a1 == [a EXCEPT !.db = ins.st, !.draws = token,
                        !.sessions = Put(a.sessions, token, session_data),
                        !.current_user = <<user>>, !.current_session = token]
    IN [a |-> LogAction(a1, user["id"], username, "LOGIN_SUCCESS", TRUE, t),
        value |-> [success |-> TRUE, token |-> token, role |-> user["role"],
                   session_expires_in |-> SESSION_TIMEOUT \div 60]]

\* mutation of ReachedLimit: the limit is reached one attempt later
ReachedLimitLate(failed) == failed > MAX_FAILED_ATTEMPTS

\* "if failed >= self.MAX_FAILED_ATTEMPTS"
ReachedLimit(failed) == failed >= MAX_FAILED_ATTEMPTS

\* AuthSystem.login after the password check failed (lines 187-207)
LoginWrongPassword(a, user, username, t) ==
    LET failed == GetOr(user, "failed_attempts", 0) + 1
    IN IF ReachedLimit(failed)
       THEN LET a1 == LogAction(a, user["id"], username, "ACCOUNT_LOCKED", FALSE, t)
                upd == Update(a1.db, "users", [id |-> user["id"]],
                              [failed_attempts |-> failed,
                               locked_until |-> t + LOCKOUT_DURATION], t)
            IN [a |-> [a1 EXCEPT !.db = upd.st],
                value |-> Failure("Konto zablokowane na minut: ", LOCKOUT_DURATION \div 60)]
       ELSE LET upd == Update(a.db, "users", [id |-> user["id"]],
                              [failed_attempts |-> failed], t)
                a1 == LogAction([a EXCEPT !.db = upd.st], user["id"], username,
                                "LOGIN_FAILED", FALSE, t)
            IN [a |-> a1,
                value |-> Failure("Nieprawidlowe haslo. Pozostalo prob: ",
                                  MAX_FAILED_ATTEMPTS - failed)]

\* mutation of IsLocked: a lockout is over one step of the clock early
IsLockedShort(user, t) == GetOr(user, "locked_until", 0) > t + LOCKOUT_DURATION \div 2

\* "if user.get('locked_until', 0) > time.time()"
IsLocked(user, t) == GetOr(user, "locked_until", 0) > t

\* mutation of IsActive: the is_active flag is not looked at
IsActiveAlways(user) == TRUE

\* "user.get('is_active', True)"
IsActive(user) == GetOr(user, "is_active", TRUE)

\* AuthSystem.login
Login(a, username, password, t) ==
    LET found == SelectOne(a.db, "users", [username |-> username], t)
        a0 == [a EXCEPT !.db = found.st]
    IN IF found.value = <<>>
       THEN [a |-> LogAction(a0, None, username, "LOGIN_FAILED", FALSE, t),
             value |-> Failure("Nieprawidlowa nazwa uzytkownika lub haslo.", None)]
       ELSE LET user == found.value[1]
            IN IF IsLocked(user, t)
               THEN [a |-> LogAction(a0, user["id"], username, "LOGIN_BLOCKED", FALSE, t),
                     value |-> Failure("Konto jest zablokowane. Sprobuj za sekund: ",
                                       user["locked_until"] - t)]
               ELSE IF ~IsActive(user)
               THEN [a |-> a0, value |-> Failure("Konto jest dezaktywowane.", None)]
               ELSE IF HashPassword(password, user["salt"]) # user["password_hash"]
               THEN LoginWrongPassword(a0, user, username, t)
               ELSE LoginSucceeds(a0, user, username, t)

\* "token or self.current_session"
TokenOrCurrent(a, token) == IF token = None THEN a.current_session ELSE token

\* mutation of RemoveSession: the token stays in the registry
RemoveSessionKeeps(registry, token) == registry

\* "del self.sessions[token]"
RemoveSession(registry, token) == Del(registry, token)

\* mutation of Expired: the boundary now = expires_at counts as expired
ExpiredAtBoundary(session, t) == t >= session.expires_at

\* "if time.time() > session['expires_at']"
Expired(session, t) == t > session.expires_at

\* AuthSystem.logout
Logout(a, token_arg, t) ==
    LET token == TokenOrCurrent(a, token_arg)
    IN IF token = None \/ token \notin DOMAIN a.sessions
       THEN [a |-> a, value |-> Failure("Brak aktywnej sesji.", None)]
       ELSE LET session == a.sessions[token]
                upd == Update(a.db, "sessions", [token |-> token], [is_active |-> FALSE], t)
                a1 == LogAction([a EXCEPT !.sessions = RemoveSession(a.sessions, token), !.db = upd.st],
                                session.user_id, session.username, "LOGOUT", TRUE, t)
            IN [a |-> [a1 EXCEPT !.current_user = <<>>, !.current_session = None],
                value |-> [success |-> TRUE, username |-> session.username,
                           session_duration |-> t - session.created_at]]

\* AuthSystem.validate_session
ValidateSession(a, token_arg, t) ==
    LET token == TokenOrCurrent(a, token_arg)
    IN IF token = None \/ token \notin DOMAIN a.sessions
       THEN [a |-> a, value |-> [valid |-> FALSE, error |-> "Sesja nie istnieje."]]
       ELSE LET session == a.sessions[token]
            IN IF Expired(session, t)
               THEN LET upd == Update(a.db, "sessions", [token |-> token],
                                      [is_active |-> FALSE], t)
                    IN [a |-> [a EXCEPT !.sessions = RemoveSession(a.sessions, token), !.db = upd.st,
                                        !.current_user = <<>>, !.current_session = None],
                        value |-> [valid |-> FALSE,
                                   error |-> "Sesja wygasla. Zaloguj sie ponownie."]]
               ELSE [a |-> [a EXCEPT !.sessions[token].last_activity = t,
                                     !.sessions[token].expires_at = t + SESSION_TIMEOUT],
                     value |-> [valid |-> TRUE, username |-> session.username,
                                role |-> session.role, time_remaining |-> SESSION_TIMEOUT]]

\* AuthSystem.get_active_sessions: the entries kept, by token
GetActiveSessions(a, t) ==
    LET kept == {token \in DOMAIN a.sessions : ~Expired(a.sessions[token], t)}
    IN [a |-> [a EXCEPT !.sessions = [token \in kept |-> a.sessions[token]]],
        value |-> [token \in kept |->
                      [username |-> a.sessions[token].username, role |-> a.sessions[token].role,
                       created_at |-> Strftime(a.sessions[token].created_at),
                       expires_at |-> Strftime(a.sessions[token].expires_at),
                       last_activity |-> Strftime(a.sessions[token].last_activity)]]]

\* AuthSystem.change_password
ChangePassword(a, username, old_password, new_password, t) ==
    LET found == SelectOne(a.db, "users", [username |-> username], t)
        a0 == [a EXCEPT !.db = found.st]
    IN IF found.value = <<>>
       THEN [a |-> a0, value |-> Failure("Uzytkownik nie istnieje.", None)]
       ELSE LET user == found.value[1]
            IN IF HashPassword(old_password, user["salt"]) # user["password_hash"]
               THEN [a |-> a0, value |-> Failure("Nieprawidlowe stare haslo.", None)]
               ELSE IF StrLen(new_password) < PASSWORD_MIN_LENGTH
               THEN [a |-> a0, value |-> Failure("Nowe haslo musi miec min. znakow: ",
                                                 PASSWORD_MIN_LENGTH)]
               ELSE LET new_salt == Fresh(a)
                        upd == Update(a0.db, "users", [id |-> user["id"]],
                                      [password_hash |-> HashPassword(new_password, new_salt),
                                       salt |-> new_salt], t)
                    IN [a |-> LogAction([a0 EXCEPT !.db = upd.st, !.draws = new_salt],
                                        user["id"], username, "PASSWORD_CHANGED", TRUE, t),
                        value |-> [success |-> TRUE]]

\* mutation of AdminCheck: the session's role is not looked at
AdminCheckAnyRole(a, admin_token, t) ==
    LET admin_session == ValidateSession(a, admin_token, t)
        a1 == admin_session.a
    IN IF ~admin_session.value.valid
       THEN [a |-> a1, ok |-> FALSE,
             value |-> Failure("Brak uprawnien - nieprawidlowa sesja.", None)]
       ELSE IF admin_token \notin DOMAIN a1.sessions
       THEN [a |-> a1, ok |-> FALSE, value |-> Failure("Brak uprawnien administratora!", None)]
       ELSE [a |-> a1, ok |-> TRUE, value |-> [success |-> TRUE]]

\* the check both administrative operations start with (lines 370-376):
\* the object after validate_session, and the failure, if any
AdminCheck(a, admin_token, t) ==
    LET admin_session == ValidateSession(a, admin_token, t)
        a1 == admin_session.a
    IN IF ~admin_session.value.valid
       THEN [a |-> a1, ok |-> FALSE,
             value |-> Failure("Brak uprawnien - nieprawidlowa sesja.", None)]
       ELSE IF admin_token \notin DOMAIN a1.sessions \/ a1.sessions[admin_token].role # "admin"
       THEN [a |-> a1, ok |-> FALSE, value |-> Failure("Brak uprawnien administratora!", None)]
       ELSE [a |-> a1, ok |-> TRUE, value |-> [success |-> TRUE]]

\* mutation of DeactivateUser: the sessions of the target leave the registry
DeactivateUserRevokes(a, admin_token, username, t) ==
    LET chk == AdminCheck(a, admin_token, t)
    IN IF ~chk.ok THEN [a |-> chk.a, value |-> chk.value]
       ELSE LET found == SelectOne(chk.a.db, "users", [username |-> username], t)
            IN IF found.value = <<>>
               THEN [a |-> [chk.a EXCEPT !.db = found.st],
                     value |-> Failure("Uzytkownik nie istnieje.", None)]
               ELSE LET upd == Update(found.st, "users", [username |-> username],
                                      [is_active |-> FALSE], t)
                        kept == {token \in DOMAIN chk.a.sessions :
                                    chk.a.sessions[token].username # username}
                    IN [a |-> LogAction([chk.a EXCEPT !.db = upd.st,
                                               !.sessions = [token \in kept |-> @[token]]],
                                        found.value[1]["id"],
                                        username, "ACCOUNT_DEACTIVATED", TRUE, t),
                        value |-> [success |-> TRUE]]

\* AuthSystem.deactivate_user
DeactivateUser(a, admin_token, username, t) ==
    LET chk == AdminCheck(a, admin_token, t)
    IN IF ~chk.ok THEN [a |-> chk.a, value |-> chk.value]
       ELSE LET found == SelectOne(chk.a.db, "users", [username |-> username], t)
            IN IF found.value = <<>>
               THEN [a |-> [chk.a EXCEPT !.db = found.st],
                     value |-> Failure("Uzytkownik nie istnieje.", None)]
               ELSE LET upd == Update(found.st, "users", [username |-> username],
                                      [is_active |-> FALSE], t)
                    IN [a |-> LogAction([chk.a EXCEPT !.db = upd.st], found.value[1]["id"],
                                        username, "ACCOUNT_DEACTIVATED", TRUE, t),
                        value |-> [success |-> TRUE]]

\* AuthSystem.activate_user
ActivateUser(a, admin_token, username, t) ==
    LET chk == AdminCheck(a, admin_token, t)
    IN IF ~chk.ok THEN [a |-> chk.a, value |-> chk.value]
       ELSE LET upd == Update(chk.a.db, "users", [username |-> username],
                              [is_active |-> TRUE, failed_attempts |-> 0, locked_until |-> 0], t)
            IN [a |-> [chk.a EXCEPT !.db = upd.st], value |-> [success |-> TRUE]]

(***************************************************************************)
(* The authentication specification: callers of the AuthSystem methods.    *)
(* The AuthSystem is constructed on a new store or on a store a previous   *)
(* process left on disk.                                                   *)
(***************************************************************************)
\* mutation of Restart: the registry of the previous process is kept
RestartKeepsSessions(a, t) ==
    [NewAuthSystem(Load(a.db), t) EXCEPT !.draws = a.draws, !.exported = a.exported,
                                         !.sessions = a.sessions]

\* a new process on the same disk: Database.__init__, then AuthSystem.__init__
Restart(a, t) ==
    [NewAuthSystem(Load(a.db), t) EXCEPT !.draws = a.draws, !.exported = a.exported]

\* k wrong-password logins for bob
RECURSIVE WrongLogins(_, _)
WrongLogins(a, k) ==
    IF k = 0 THEN a ELSE WrongLogins(Login(a, "bob", "hunter22", 0).a, k - 1)

\* what a previous process left: alice (admin) and bob (user) registered,
\* then k wrong-password logins for bob
Seeded(k) ==
    LET a0 == NewAuthSystem(NewDatabase(0), 0)
        a1 == Register(a0, "alice", "secret1", "", "admin", 0).a
        a2 == Register(a1, "bob", "secret1", "", "user", 0).a
    IN Restart(WrongLogins(a2, k), 0)

\* what a previous process left when alice was logged in as it ended
SeededWithSession ==
    LET a0 == NewAuthSystem(NewDatabase(0), 0)
        a1 == Register(a0, "alice", "secret1", "", "admin", 0).a
        a2 == Register(a1, "bob", "secret1", "", "user", 0).a
    IN Restart(Login(a2, "alice", "secret1", 0).a, 0)

Seeds ==
    {NewAuthSystem(NewDatabase(0), 0), SeededWithSession}
        \cup {Seeded(k) : k \in 0..MAX_FAILED_ATTEMPTS}

\* the clock advances the model takes: half a lockout, a whole session timeout
Steps == {LOCKOUT_DURATION \div 2, SESSION_TIMEOUT}

\* the tokens callers pass: none, a forged one, and every token a login returned
TokenArgs ==
    {None, ForgedToken} \cup {Rows(Self, "sessions")[i]["token"] : i \in 1..Len(Rows(Self, "sessions"))}

AuthInit ==
    /\ now = 0
    /\ returned = EmptyDict
    /\ everIds = EmptyDict
    /\ ticks = 0
    /\ callers = <<>>
    /\ \E a \in Seeds :
          /\ db = a.db
          /\ sessions = a.sessions
          /\ current_user = a.current_user
          /\ current_session = a.current_session
          /\ draws = a.draws
          /\ exported = a.exported
          /\ boot = [history |-> Len(Rows(a, "login_history")),
                      updates |-> a.db.stats.total_updates,
                      sessions |-> Len(Rows(a, "sessions"))]

\* the state after a call that returned r
Apply(r) ==
    /\ Len(Rows(r.a, "login_history")) <= boot.history + MaxHistory
    /\ r.a.db.stats.total_updates <= boot.updates + MaxAuthUpdates
    /\ Len(Rows(r.a, "sessions")) <= MaxLogins
    /\ db' = r.a.db
    /\ sessions' = r.a.sessions
    /\ current_user' = r.a.current_user
    /\ current_session' = r.a.current_session
    /\ draws' = r.a.draws
    /\ exported' = r.a.exported
    /\ UNCHANGED <<now, storeHistory, boot, ticks, callers>>

Tick(d) ==
    /\ ticks < MaxTicks
    /\ now' = now + d
    /\ ticks' = ticks + 1
    /\ UNCHANGED <<db, storeHistory, sessions, current_user, current_session, draws, exported,
                   boot, callers>>

RegisterOp(username, password, role) == Apply(Register(Self, username, password, "", role, now))

LoginOp(username, password) == Apply(Login(Self, username, password, now))

LogoutOp(token) == Apply(Logout(Self, token, now))

ValidateSessionOp(token) == Apply(ValidateSession(Self, token, now))

GetActiveSessionsOp == Apply(GetActiveSessions(Self, now))

ChangePasswordOp(username, old_password, new_password) ==
    Apply(ChangePassword(Self, username, old_password, new_password, now))

DeactivateUserOp(token, username) == Apply(DeactivateUser(Self, token, username, now))

ActivateUserOp(token, username) == Apply(ActivateUser(Self, token, username, now))

AuthNext ==
    \/ \E d \in Steps : Tick(d)
    \/ \E username \in Usernames, password \in {"secret1", "abc"}, role \in Roles :
          RegisterOp(username, password, role)
    \/ \E username \in {"alice", "bob"}, password \in {"secret1", "hunter22"} :
          LoginOp(username, password)
    \/ \E token \in TokenArgs : LogoutOp(token)
    \/ \E token \in TokenArgs : ValidateSessionOp(token)
    \/ GetActiveSessionsOp
    \/ \E username \in {"alice"}, old_password \in {"secret1", "hunter22"},
          new_password \in {"hunter22", "abc"} :
          ChangePasswordOp(username, old_password, new_password)
    \/ \E token \in TokenArgs, username \in {"alice", "bob"} : DeactivateUserOp(token, username)
    \/ \E token \in TokenArgs, username \in {"alice", "bob"} : ActivateUserOp(token, username)

AuthSpec == AuthInit /\ [][AuthNext]_vars

(***************************************************************************)
(* Claims about the authentication module (specification AuthSpec).  A     *)
(* claim about a call is stated of the call made in any reachable state.   *)
(***************************************************************************)
\* the usernames of the users table
Registered == {Rows(Self, "users")[i]["username"] : i \in 1..Len(Rows(Self, "users"))}

\* the user record with this username (the one login reads)
UserOf(a, username) == SelectOne(a.db, "users", [username |-> username], 0).value[1]

\* the password is the one the user's hash was computed from
CorrectPassword(user, password) == HashPassword(password, user["salt"]) = user["password_hash"]

\* the last n entries of login_history
LastEntries(a, n) ==
    SubSeq(Rows(a, "login_history"), Len(Rows(a, "login_history")) - n + 1,
           Len(Rows(a, "login_history")))

\* login_history ends with entries of this user with these actions
HistoryEndsWith(username, actions) ==
    /\ Len(Rows(Self, "login_history")) >= Len(actions)
    /\ \A i \in 1..Len(actions) :
          /\ LastEntries(Self, Len(actions))[i]["username"] = username
          /\ LastEntries(Self, Len(actions))[i]["action"] = actions[i]

\* the lockout state LOCKED: locked_until > now
Locked(user, t) == user["locked_until"] > t

\* the account is deactivated: is_active = false
Deactivated(user) == user["is_active"] = FALSE

LockedMessage == "Konto jest zablokowane. Sprobuj za sekund: "
RemainingMessage == "Nieprawidlowe haslo. Pozostalo prob: "

\* C4: from failed_attempts = 0, the k-th consecutive wrong-password login
\* (one that reaches the password check: account active, not locked) leaves
\* the account unlocked for k < MAX_FAILED_ATTEMPTS, and the
\* MAX_FAILED_ATTEMPTS-th sets failed_attempts = MAX_FAILED_ATTEMPTS and
\* locked_until = now + LOCKOUT_DURATION; a login before locked_until is
\* answered as locked, with locked_until - now as the remaining time, which
\* decreases as the clock advances.
C4_LockAtMaxFailedAttempts ==
    \A username \in Registered :
        LET user == UserOf(Self, username)
        IN /\ user["failed_attempts"] < MAX_FAILED_ATTEMPTS => ~Locked(user, now)
           /\ \A password \in Passwords :
                 (/\ ~Deactivated(user) /\ ~Locked(user, now) /\ ~CorrectPassword(user, password)
                  /\ user["failed_attempts"] < MAX_FAILED_ATTEMPTS) =>
                 LET r == Login(Self, username, password, now)
                     after == UserOf(r.a, username)
                 IN /\ ~r.value.success
                    /\ after["failed_attempts"] = user["failed_attempts"] + 1
                    /\ after["failed_attempts"] < MAX_FAILED_ATTEMPTS =>
                          /\ ~Locked(after, now)
                          /\ r.value.error = RemainingMessage
                    /\ after["failed_attempts"] = MAX_FAILED_ATTEMPTS =>
                          /\ after["locked_until"] = now + LOCKOUT_DURATION
                          /\ \A again \in Passwords :
                                Login(r.a, username, again, now).value =
                                    Failure(LockedMessage, LOCKOUT_DURATION)
           /\ \A password \in Passwords :
                 Locked(user, now) =>
                    /\ Login(Self, username, password, now).value =
                           Failure(LockedMessage, user["locked_until"] - now)
                    /\ \A d \in Steps :
                          now + d < user["locked_until"] =>
                             /\ Login(Self, username, password, now + d).value.error = LockedMessage
                             /\ Login(Self, username, password, now + d).value.n
                                   < Login(Self, username, password, now).value.n

\* C4's case: locked by the MAX_FAILED_ATTEMPTS-th attempt, the clock has
\* advanced, and a login was answered as locked.
C4_Witness ==
    \E username \in Registered :
        /\ UserOf(Self, username)["failed_attempts"] = MAX_FAILED_ATTEMPTS
        /\ Locked(UserOf(Self, username), now)
        /\ now > UserOf(Self, username)["locked_until"] - LOCKOUT_DURATION
        /\ HistoryEndsWith(username, <<"ACCOUNT_LOCKED", "LOGIN_BLOCKED">>)

\* C5: while an account is locked (locked_until > now) every login attempt
\* for it, with a correct or a wrong password, is rejected, creates no
\* session, and leaves failed_attempts, locked_until, last_login and
\* is_active of the user unchanged.
C5_LockedLoginChangesNothing ==
    \A username \in Registered, password \in Passwords :
        LET user == UserOf(Self, username)
            r == Login(Self, username, password, now)
            after == UserOf(r.a, username)
        IN Locked(user, now) =>
              /\ ~r.value.success
              /\ r.a.sessions = sessions
              /\ Rows(r.a, "sessions") = Rows(Self, "sessions")
              /\ after["failed_attempts"] = user["failed_attempts"]
              /\ after["locked_until"] = user["locked_until"]
              /\ after["last_login"] = user["last_login"]
              /\ after["is_active"] = user["is_active"]

\* C5's case: a login was attempted on a locked account.
C5_Witness ==
    \E username \in Registered :
        /\ Locked(UserOf(Self, username), now)
        /\ HistoryEndsWith(username, <<"LOGIN_BLOCKED">>)
        /\ \E password \in Passwords : CorrectPassword(UserOf(Self, username), password)

\* C6: every successful login sets failed_attempts and locked_until to 0;
\* for an active account whose lockout is over (now >= locked_until) a
\* correct-password login succeeds and resets both.
C6_SuccessfulLoginResets ==
    \A username \in Registered, password \in Passwords :
        LET user == UserOf(Self, username)
            r == Login(Self, username, password, now)
            after == UserOf(r.a, username)
        IN /\ r.value.success =>
                 /\ after["failed_attempts"] = 0
                 /\ after["locked_until"] = 0
           /\ (~Deactivated(user) /\ now >= user["locked_until"] /\ CorrectPassword(user, password)) =>
                 r.value.success

\* C6's case: an account that was locked has logged in after the lockout.
C6_Witness ==
    \E username \in Registered :
        /\ HistoryEndsWith(username, <<"ACCOUNT_LOCKED", "LOGIN_SUCCESS">>)
        /\ UserOf(Self, username)["failed_attempts"] = 0
        /\ UserOf(Self, username)["locked_until"] = 0

\* C7: every account is at all times either LOCKED (locked_until > now) or
\* ACTIVE (failed_attempts < MAX_FAILED_ATTEMPTS and locked_until <= now); so
\* once a lockout is over, one wrong-password login is answered with the
\* remaining attempts and does not lock the account again.
C7_LockedOrActive ==
    \A username \in Registered :
        LET user == UserOf(Self, username)
        IN /\ \/ Locked(user, now)
              \/ user["failed_attempts"] < MAX_FAILED_ATTEMPTS /\ user["locked_until"] <= now
           /\ \A password \in Passwords :
                 (/\ ~Deactivated(user) /\ ~CorrectPassword(user, password)
                  /\ user["locked_until"] > 0 /\ now >= user["locked_until"]) =>
                 LET r == Login(Self, username, password, now)
                 IN /\ r.value.error = RemainingMessage
                    /\ ~Locked(UserOf(r.a, username), now)

\* the session is one validate_session accepts as an administrator's
ValidAdminSession(token) ==
    /\ token \in DOMAIN sessions
    /\ now <= sessions[token].expires_at
    /\ sessions[token].role = "admin"

\* the durable sessions rows with this token
DurableRows(a, token) ==
    SelectSeq2(Rows(a, "sessions"),
               {row \in {Rows(a, "sessions")[i] : i \in 1..Len(Rows(a, "sessions"))} :
                   row["token"] = token})

\* every durable row with this token is inactive, and there is one
DurableInactive(a, token) ==
    /\ DurableRows(a, token) # <<>>
    /\ \A i \in 1..Len(DurableRows(a, token)) : DurableRows(a, token)[i]["is_active"] = FALSE

\* the account exists in a and is still deactivated
StillDeactivated(a, username) ==
    /\ SelectOne(a.db, "users", [username |-> username], 0).value # <<>>
    /\ Deactivated(UserOf(a, username))

\* C8: login on an account with is_active = false never succeeds and never
\* creates a session, whatever the password and the lockout fields; and
\* is_active goes from false to true only by an activate_user call made with
\* a valid admin session: no login, validate_session, logout,
\* change_password, register, deactivate_user or get_active_sessions call
\* sets it to true.
C8_DeactivatedStaysOut ==
    \A username \in Registered :
        Deactivated(UserOf(Self, username)) =>
           /\ \A password \in Passwords :
                 LET r == Login(Self, username, password, now)
                 IN /\ ~r.value.success
                    /\ r.a.sessions = sessions
                    /\ Rows(r.a, "sessions") = Rows(Self, "sessions")
           /\ \A other \in Usernames, password \in Passwords :
                 /\ StillDeactivated(Login(Self, other, password, now).a, username)
                 /\ \A role \in Roles :
                       StillDeactivated(Register(Self, other, password, "", role, now).a, username)
                 /\ \A new_password \in Passwords :
                       StillDeactivated(
                           ChangePassword(Self, other, password, new_password, now).a, username)
           /\ StillDeactivated(GetActiveSessions(Self, now).a, username)
           /\ \A token \in TokenArgs :
                 /\ StillDeactivated(ValidateSession(Self, token, now).a, username)
                 /\ StillDeactivated(Logout(Self, token, now).a, username)
                 /\ \A other \in Usernames :
                       /\ StillDeactivated(DeactivateUser(Self, token, other, now).a, username)
                       /\ ~StillDeactivated(ActivateUser(Self, token, other, now).a, username) =>
                             (other = username /\ ValidAdminSession(token))
                       /\ (other = username /\ ValidAdminSession(token)) =>
                             ~StillDeactivated(ActivateUser(Self, token, other, now).a, username)

\* C8's case: an account was deactivated while an administrator's session
\* that could activate it again is open.
C8_Witness ==
    \E username \in Registered, token \in DOMAIN sessions :
        /\ Deactivated(UserOf(Self, username))
        /\ HistoryEndsWith(username, <<"ACCOUNT_DEACTIVATED">>)
        /\ ValidAdminSession(token)

\* C9: validate_session(token) for a token in the registry: if now >
\* expires_at it returns invalid, removes the token (and no other) from the
\* registry and sets is_active = false on the durable row with that token;
\* otherwise (boundary now = expires_at included) it returns valid, sets
\* expires_at = now + SESSION_TIMEOUT and last_activity = now and leaves
\* user_id, username and role as they were, so that the next validation up
\* to SESSION_TIMEOUT later is valid too, with the same username and role.
C9_ValidateSessionSlides ==
    \A token \in DOMAIN sessions :
        LET session == sessions[token]
            r == ValidateSession(Self, token, now)
        IN IF now > session.expires_at
           THEN /\ ~r.value.valid
                /\ DOMAIN r.a.sessions = DOMAIN sessions \ {token}
                /\ \A kept \in DOMAIN r.a.sessions : r.a.sessions[kept] = sessions[kept]
                /\ DurableInactive(r.a, token)
           ELSE /\ r.value.valid
                /\ r.value.username = session.username
                /\ r.value.role = session.role
                /\ r.a.sessions = [sessions EXCEPT ![token] =
                       [session EXCEPT !.expires_at = now + SESSION_TIMEOUT,
                                       !.last_activity = now]]
                /\ \A d \in {0, SESSION_TIMEOUT \div 2, SESSION_TIMEOUT} :
                      LET again == ValidateSession(r.a, token, now + d)
                      IN /\ again.value.valid
                         /\ again.value.username = session.username
                         /\ again.value.role = session.role
                         /\ again.a.sessions[token].user_id = session.user_id
                /\ ~ValidateSession(r.a, token, now + SESSION_TIMEOUT + 1).value.valid

\* C9's case: a session kept alive by validations SESSION_TIMEOUT apart,
\* past the expiry it was created with.
C9_Witness ==
    \E token \in DOMAIN sessions :
        /\ sessions[token].last_activity >= sessions[token].created_at + 2 * SESSION_TIMEOUT
        /\ sessions[token].expires_at = sessions[token].last_activity + SESSION_TIMEOUT

\* C10: logout(token) with a token that is not in the registry returns
\* failure and changes nothing (registry, users, sessions, login_history);
\* with a token in the registry it removes exactly that token, sets
\* is_active = false on the durable row with that token and on no other,
\* and appends one LOGOUT entry to login_history.  After it,
\* validate_session(token) and logout(token) fail, and the token never
\* comes back: no login issues it again, and no token of an inactive
\* durable row is in the registry.
C10_LogoutEndsSession ==
    /\ \A token \in TokenArgs \ {None} :
          LET r == Logout(Self, token, now)
          IN IF token \notin DOMAIN sessions
             THEN /\ ~r.value.success
                  /\ r.a = Self
             ELSE /\ r.value.success
                  /\ DOMAIN r.a.sessions = DOMAIN sessions \ {token}
                  /\ \A kept \in DOMAIN r.a.sessions : r.a.sessions[kept] = sessions[kept]
                  /\ DurableInactive(r.a, token)
                  /\ \A i \in 1..Len(Rows(Self, "sessions")) :
                        Rows(Self, "sessions")[i]["token"] # token =>
                           Rows(r.a, "sessions")[i] = Rows(Self, "sessions")[i]
                  /\ Rows(r.a, "users") = Rows(Self, "users")
                  /\ Len(Rows(r.a, "login_history")) = Len(Rows(Self, "login_history")) + 1
                  /\ SubSeq(Rows(r.a, "login_history"), 1, Len(Rows(Self, "login_history")))
                        = Rows(Self, "login_history")
                  /\ LastEntries(r.a, 1)[1]["action"] = "LOGOUT"
                  /\ LastEntries(r.a, 1)[1]["username"] = sessions[token].username
                  /\ \A d \in {0} \cup Steps :
                        /\ ~Logout(r.a, token, now + d).value.success
                        /\ ~ValidateSession(r.a, token, now + d).value.valid
                  /\ \A username \in Usernames, password \in Passwords :
                        LET relogin == Login(r.a, username, password, now)
                        IN relogin.value.success => relogin.value.token # token
    /\ \A i \in 1..Len(Rows(Self, "sessions")) :
          Rows(Self, "sessions")[i]["is_active"] = FALSE =>
             Rows(Self, "sessions")[i]["token"] \notin DOMAIN sessions

\* C10's case: a session was logged out, and a logout or validation with
\* its token can follow.
C10_Witness ==
    \E i \in 1..Len(Rows(Self, "sessions")) :
        /\ Rows(Self, "sessions")[i]["is_active"] = FALSE
        /\ Rows(Self, "sessions")[i]["token"] \notin DOMAIN sessions
        /\ Len(Rows(Self, "login_history")) >= 1
        /\ LastEntries(Self, 1)[1]["action"] = "LOGOUT"
        /\ LastEntries(Self, 1)[1]["user_id"] = Rows(Self, "sessions")[i]["user_id"]

\* C11: deactivate_user(token, u) and activate_user(token, u) change the
\* users table only if token is in the registry, not expired, and of role
\* admin; with any other token argument (unknown, expired, none, or of a
\* role user session) they return a failure and leave the users table, and
\* so the target's is_active, failed_attempts and locked_until, unchanged.
\* With a valid admin session and an existing target they do succeed.
C11_AdminOperationsNeedAdminSession ==
    \A token \in TokenArgs, username \in Usernames :
        LET off == DeactivateUser(Self, token, username, now)
            on == ActivateUser(Self, token, username, now)
        IN IF ValidAdminSession(token)
           THEN /\ on.value.success
                /\ username \in Registered =>
                      /\ off.value.success
                      /\ Deactivated(UserOf(off.a, username))
                      /\ ~Deactivated(UserOf(on.a, username))
                      /\ UserOf(on.a, username)["failed_attempts"] = 0
                      /\ UserOf(on.a, username)["locked_until"] = 0
           ELSE /\ ~off.value.success
                /\ ~on.value.success
                /\ Rows(off.a, "users") = Rows(Self, "users")
                /\ Rows(on.a, "users") = Rows(Self, "users")

\* C11's case: the registry holds an administrator's expired session and a
\* session of role user, the tokens an administrative call must refuse.
C11_Witness ==
    \E expired \in DOMAIN sessions, token \in DOMAIN sessions :
        /\ now > sessions[expired].expires_at
        /\ now <= sessions[token].expires_at
        /\ sessions[token].role = "user"
        /\ sessions[expired].role = "admin"

HistoryActions ==
    {"REGISTER", "LOGIN_SUCCESS", "LOGIN_FAILED", "LOGIN_BLOCKED", "ACCOUNT_LOCKED", "LOGOUT",
     "PASSWORD_CHANGED", "ACCOUNT_DEACTIVATED"}

\* what an entry of login_history says
Said(entry) ==
    [user_id |-> entry["user_id"], username |-> entry["username"],
     action |-> entry["action"], success |-> entry["success"]]

\* the login_history of a1 is that of the current state with entries
\* appended, each with an action of the vocabulary
HistoryExtendedBy(a1) ==
    LET before == Rows(Self, "login_history")
        after == Rows(a1, "login_history")
    IN /\ Len(after) >= Len(before)
       /\ \A i \in 1..Len(before) : Said(after[i]) = Said(before[i])
       /\ \A i \in (Len(before) + 1)..Len(after) : after[i]["action"] \in HistoryActions

\* C17: login_history is append-only under every operation of the
\* authentication module: after a call the table has what it had before as a
\* prefix, with user_id, username, action and success of those entries
\* unchanged, and every appended action is one of the fixed vocabulary.
C17_HistoryAppendOnly ==
    /\ HistoryExtendedBy(GetActiveSessions(Self, now).a)
    /\ \A username \in Usernames, password \in Passwords :
          /\ HistoryExtendedBy(Login(Self, username, password, now).a)
          /\ \A role \in Roles :
                HistoryExtendedBy(Register(Self, username, password, "", role, now).a)
          /\ \A new_password \in Passwords :
                HistoryExtendedBy(ChangePassword(Self, username, password, new_password, now).a)
    /\ \A token \in TokenArgs :
          /\ HistoryExtendedBy(Logout(Self, token, now).a)
          /\ HistoryExtendedBy(ValidateSession(Self, token, now).a)
          /\ \A username \in Usernames :
                /\ HistoryExtendedBy(DeactivateUser(Self, token, username, now).a)
                /\ HistoryExtendedBy(ActivateUser(Self, token, username, now).a)
    /\ \A i \in 1..Len(Rows(Self, "login_history")) :
          Rows(Self, "login_history")[i]["action"] \in HistoryActions

\* C17's case: a user has two entries, the second appended after the first
\* by another operation.
C17_Witness ==
    \E username \in Registered : HistoryEndsWith(username, <<"REGISTER", "PASSWORD_CHANGED">>)

\* C18: a failed login does not reveal whether the username exists: login
\* with an unregistered name and login with a wrong password for a
\* registered, active, unlocked account return the same outcome.
C18_FailedLoginIsGeneric ==
    \A username \in Registered, unknown \in Usernames \ Registered, password \in Passwords :
        LET user == UserOf(Self, username)
        IN (~Deactivated(user) /\ ~Locked(user, now) /\ ~CorrectPassword(user, password)) =>
              Login(Self, username, password, now).value
                 = Login(Self, unknown, password, now).value

\* the names register is called with: Usernames and one that differs from a
\* registered name by case only
RegisterNames == Usernames \cup {"Alice"}

\* C19: register rejects, with a failure and no change to the users table,
\* the login_history table or the exporter, every call with a username
\* shorter than 3, a password shorter than PASSWORD_MIN_LENGTH (6), or a
\* username that a user already has (compared case-sensitively); a name
\* differing by case only is not rejected as existing.
C19_RegisterRejects ==
    \A username \in RegisterNames, password \in Passwords, role \in Roles :
        LET r == Register(Self, username, password, "", role, now)
            short == username = "al" \/ password = "abc"
        IN IF short \/ username \in Registered
           THEN /\ ~r.value.success
                /\ Rows(r.a, "users") = Rows(Self, "users")
                /\ Rows(r.a, "login_history") = Rows(Self, "login_history")
                /\ r.a.exported = exported
           ELSE /\ r.value.success
                /\ Len(Rows(r.a, "users")) = Len(Rows(Self, "users")) + 1
                /\ Len(r.a.exported) = Len(exported) + 1

\* C19's case: a user was registered by this process, so a second register
\* with its name must be rejected.
C19_Witness ==
    \E username \in Registered :
        /\ HistoryEndsWith(username, <<"REGISTER">>)
        /\ Len(Rows(Self, "login_history")) > boot.history
        /\ exported # <<>>
        /\ exported[Len(exported)][1] = username

\* C20: with the operations of the authentication module running one at a
\* time, no two records of the users table have the same username.
C20_UsernamesUnique ==
    \A i, j \in 1..Len(Rows(Self, "users")) :
        Rows(Self, "users")[i]["username"] = Rows(Self, "users")[j]["username"] => i = j

\* C20's case: two users registered one after the other.
C20_Witness ==
    /\ Len(Rows(Self, "users")) >= 2
    /\ Len(Rows(Self, "login_history")) >= boot.history + 2
    /\ LastEntries(Self, 2)[1]["action"] = "REGISTER"
    /\ LastEntries(Self, 2)[2]["action"] = "REGISTER"
    /\ Len(exported) >= 2

\* the e-mail addresses register is called with
Emails == {"", "alice@example.org"}

\* C21: a successful register inserts exactly one user record with the
\* given username, email and role, is_active = true, failed_attempts = 0 and
\* locked_until = 0, appends exactly one REGISTER history entry carrying the
\* new user's id, and calls the exporter once with (username, email, role,
\* user_id); a login with the same username and password right afterwards
\* succeeds.
C21_RegisterCreatesAccount ==
    \A username \in RegisterNames, password \in Passwords, email \in Emails, role \in Roles :
        LET r == Register(Self, username, password, email, role, now)
            users == Rows(r.a, "users")
            history == Rows(r.a, "login_history")
            user == users[Len(users)]
        IN r.value.success =>
              /\ SubSeq(users, 1, Len(users) - 1) = Rows(Self, "users")
              /\ user["id"] = r.value.user_id
              /\ user["username"] = username
              /\ user["email"] = email
              /\ user["role"] = role
              /\ user["is_active"] = TRUE
              /\ user["failed_attempts"] = 0
              /\ user["locked_until"] = 0
              /\ SubSeq(history, 1, Len(history) - 1) = Rows(Self, "login_history")
              /\ Said(history[Len(history)]) =
                    [user_id |-> user["id"], username |-> username, action |-> "REGISTER",
                     success |-> TRUE]
              /\ r.a.exported = Append(exported, <<username, email, role, user["id"]>>)
              /\ Login(r.a, username, password, now).value.success

\* C21's case: a user registered and then logged in.
C21_Witness ==
    \E username \in Registered :
        /\ HistoryEndsWith(username, <<"REGISTER", "LOGIN_SUCCESS">>)
        /\ Len(Rows(Self, "login_history")) >= boot.history + 2
        /\ exported # <<>>
        /\ exported[Len(exported)][1] = username

\* C22: registering the first user of an empty store yields an admin
\* account: register(username, password) called when the users table is
\* empty returns success, and the stored user's role is admin.
C22_FirstUserIsAdmin ==
    \A username \in {"alice", "bob"} :
        LET r == RegisterDefault(Self, username, "secret1", now)
        IN Rows(Self, "users") = <<>> =>
              /\ r.value.success
              /\ UserOf(r.a, username)["role"] = "admin"

\* every call that takes a token fails for this token in a
NoSessionFor(a, token) ==
    /\ ~ValidateSession(a, token, now).value.valid
    /\ ~Logout(a, token, now).value.success
    /\ \A username \in Usernames :
          /\ ~DeactivateUser(a, token, username, now).value.success
          /\ ~ActivateUser(a, token, username, now).value.success

\* C24: sessions do not survive a restart: a new authentication module
\* constructed on the same persisted store has an empty registry, and
\* validate_session, logout and the admin operations fail for every token
\* issued before, although the durable sessions rows of those tokens are
\* still there as they were; users (with their lockout fields) and login
\* history are preserved.
C24_SessionsEndAtRestart ==
    /\ LET restarted == Restart(Self, now)
       IN /\ restarted.sessions = EmptyDict
          /\ Rows(restarted, "sessions") = Rows(Self, "sessions")
          /\ Rows(restarted, "users") = Rows(Self, "users")
          /\ Rows(restarted, "login_history") = Rows(Self, "login_history")
          /\ \A token \in TokenArgs : NoSessionFor(restarted, token)
    /\ \A i \in 1..boot.sessions :
          /\ Rows(Self, "sessions")[i]["token"] \notin DOMAIN sessions
          /\ Rows(Self, "sessions")[i]["is_active"] = TRUE
          /\ NoSessionFor(Self, Rows(Self, "sessions")[i]["token"])

\* C24's case: a session row written before the restart is still marked
\* active while the registry of the new process holds only a later session.
C24_Witness ==
    /\ boot.sessions > 0
    /\ Rows(Self, "sessions")[1]["is_active"] = TRUE
    /\ DOMAIN sessions # {}
    /\ Len(Rows(Self, "login_history")) > boot.history

\* the durable sessions rows written by this process
OwnSessionRows == SubSeq(Rows(Self, "sessions"), boot.sessions + 1, Len(Rows(Self, "sessions")))

\* C26: dual write on login: a successful login adds the new token to the
\* registry and inserts a durable sessions row {user_id, token, is_active =
\* true} for it; and in every reachable state of one process lifetime every
\* token in the registry has exactly one durable row with that token, with
\* the same user_id and is_active = true.
C26_RegistryTokensAreDurable ==
    /\ \A username \in Usernames, password \in Passwords :
          LET r == Login(Self, username, password, now)
              rows == Rows(r.a, "sessions")
          IN r.value.success =>
                /\ r.value.token \notin DOMAIN sessions
                /\ DOMAIN r.a.sessions = DOMAIN sessions \cup {r.value.token}
                /\ r.a.sessions[r.value.token].username = username
                /\ SubSeq(rows, 1, Len(rows) - 1) = Rows(Self, "sessions")
                /\ rows[Len(rows)]["token"] = r.value.token
                /\ rows[Len(rows)]["user_id"] = UserOf(Self, username)["id"]
                /\ rows[Len(rows)]["is_active"] = TRUE
    /\ \A token \in DOMAIN sessions :
          /\ Len(DurableRows(Self, token)) = 1
          /\ DurableRows(Self, token)[1]["user_id"] = sessions[token].user_id
          /\ DurableRows(Self, token)[1]["is_active"] = TRUE

\* C26's case: two logins, each with its token in the registry and its
\* durable row.
C26_Witness ==
    /\ Cardinality(DOMAIN sessions) = 2
    /\ Len(OwnSessionRows) = 2
    /\ Len(Rows(Self, "login_history")) >= 1
    /\ LastEntries(Self, 1)[1]["action"] = "LOGIN_SUCCESS"

\* the tokens the call removed from the registry
Removed(a1) == DOMAIN sessions \ DOMAIN a1.sessions

\* C27: within one process lifetime every durable sessions row with
\* is_active = true belongs to a token that is in the registry: whenever
\* logout, validate_session or get_active_sessions removes a token from the
\* registry, the same call marks its durable row is_active = false.
C27_ActiveRowsAreInRegistry ==
    /\ \A i \in 1..Len(OwnSessionRows) :
          OwnSessionRows[i]["is_active"] = TRUE => OwnSessionRows[i]["token"] \in DOMAIN sessions
    /\ \A token \in Removed(GetActiveSessions(Self, now).a) :
          DurableInactive(GetActiveSessions(Self, now).a, token)
    /\ \A arg \in TokenArgs :
          /\ \A token \in Removed(Logout(Self, arg, now).a) :
                DurableInactive(Logout(Self, arg, now).a, token)
          /\ \A token \in Removed(ValidateSession(Self, arg, now).a) :
                DurableInactive(ValidateSession(Self, arg, now).a, token)

(***************************************************************************)
(* Failing writes.  Database._save opens the document for writing and      *)
(* dumps into it; when the document cannot be written open() raises        *)
(* OSError.  Neither _save, nor the store operation that calls it, nor the *)
(* AuthSystem method around that has a handler, so the exception reaches   *)
(* the caller.  save_user_to_file opens its files the same way and         *)
(* register calls it without a handler.                                    *)
(***************************************************************************)

\* the call reached _save: every _save follows an increment of stats, so the
\* document differs exactly when _save ran
Saved(before, after) == after.file # before.file

\* the outcome of the AuthSystem call that returns r from a when the document
\* cannot be written: the exception of the first _save, or r's own value
OnWriteFailure(a, r) ==
    IF Saved(a.db, r.a.db)
    THEN [raised |-> TRUE, a |-> a]
    ELSE [raised |-> FALSE, a |-> r.a, value |-> r.value]

\* the outcome of the register call that returns r from a when
\* save_user_to_file raises: the insert and _log_action before it are done
OnExporterFailure(a, r) ==
    IF r.a.exported # a.exported
    THEN [raised |-> TRUE, a |-> [r.a EXCEPT !.exported = a.exported]]
    ELSE [raised |-> FALSE, a |-> r.a, value |-> r.value]

\* the outcome is a result with success = false, not an exception
Structured(o) == ~o.raised /\ o.value.success = FALSE

\* C28: failures are structured outcomes, never thrown: when a persistence
\* write fails during register, login, logout, change_password or an admin
\* operation, or when the exporter fails during register, the caller gets a
\* result with success = false rather than an exception; and an exporter
\* failure leaves the inserted user record and its REGISTER entry in place.
C28_FailuresAreOutcomes ==
    /\ \A username \in Usernames, password \in Passwords, role \in Roles :
          LET r == Register(Self, username, password, "", role, now)
              o == OnExporterFailure(Self, r)
          IN /\ Saved(db, r.a.db) => Structured(OnWriteFailure(Self, r))
             /\ r.a.exported # exported =>
                   /\ Structured(o)
                   /\ SelectOne(o.a.db, "users", [username |-> username], now).value # <<>>
                   /\ LastEntries(o.a, 1)[1]["action"] = "REGISTER"
                   /\ LastEntries(o.a, 1)[1]["username"] = username
    /\ \A username \in Usernames, password \in Passwords :
          LET r == Login(Self, username, password, now)
          IN Saved(db, r.a.db) => Structured(OnWriteFailure(Self, r))
    /\ \A token \in TokenArgs :
          LET r == Logout(Self, token, now)
          IN Saved(db, r.a.db) => Structured(OnWriteFailure(Self, r))
    /\ \A username \in Usernames, old_password \in Passwords, new_password \in Passwords :
          LET r == ChangePassword(Self, username, old_password, new_password, now)
          IN Saved(db, r.a.db) => Structured(OnWriteFailure(Self, r))
    /\ \A token \in TokenArgs, username \in Usernames :
          /\ LET r == DeactivateUser(Self, token, username, now)
             IN Saved(db, r.a.db) => Structured(OnWriteFailure(Self, r))
          /\ LET r == ActivateUser(Self, token, username, now)
             IN Saved(db, r.a.db) => Structured(OnWriteFailure(Self, r))

(***************************************************************************)
(* Concurrent callers (specification RaceSpec).  Two callers share the one *)
(* Database and the one AuthSystem; the code holds no lock, so their calls *)
(* interleave.  register and login are cut at their first store call       *)
(* (select_one returns a deep copy, the caller goes on with that copy);    *)
(* Database.insert is cut at its statements: building the record, the      *)
(* append with the counters, and _save.  The clock stands still while the  *)
(* calls overlap.                                                          *)
(***************************************************************************)

MaxCalls == 1

\* AuthSystem.register up to the existence check (lines 105-114)
RegisterCheck(a, username, password, t) ==
    IF StrLen(username) < 3
    THEN [a |-> a, passed |-> FALSE,
          value |-> Failure("Nazwa uzytkownika musi miec min. 3 znaki.", None)]
    ELSE IF StrLen(password) < PASSWORD_MIN_LENGTH
    THEN [a |-> a, passed |-> FALSE,
          value |-> Failure("Haslo musi miec min. znakow: ", PASSWORD_MIN_LENGTH)]
    ELSE LET existing == SelectOne(a.db, "users", [username |-> username], t)
         IN IF existing.value # <<>>
            THEN [a |-> [a EXCEPT !.db = existing.st], passed |-> FALSE,
                  value |-> Failure("Uzytkownik o tej nazwie juz istnieje!", None)]
            ELSE [a |-> [a EXCEPT !.db = existing.st], passed |-> TRUE]

\* mutation of RegisterCreate: the store keeps usernames unique, the insert
\* is refused when a record already carries the username
RegisterCreateUnique(a, username, password, email, role, t) ==
    IF SelectOne(a.db, "users", [username |-> username], t).value # <<>>
    THEN [a |-> a, value |-> Failure("Uzytkownik o tej nazwie juz istnieje!", None)]
    ELSE LET salt == Fresh(a)
             ins == Insert(a.db, "users",
                           [username |-> username,
                            password_hash |-> HashPassword(password, salt),
                            salt |-> salt, email |-> email, role |-> role,
                            is_active |-> TRUE, failed_attempts |-> 0, locked_until |-> 0,
                            last_login |-> None, last_login_formatted |-> NoText], t)
             a1 == LogAction([a EXCEPT !.db = ins.st, !.draws = salt],
                             ins.value, username, "REGISTER", TRUE, t)
             a2 == [a1 EXCEPT !.exported = Append(@, <<username, email, role, ins.value>>)]
         IN [a |-> a2, value |-> [success |-> TRUE, user_id |-> ins.value]]

\* AuthSystem.register from the insert on (lines 116-146)
RegisterCreate(a, username, password, email, role, t) ==
    LET salt == Fresh(a)
        ins == Insert(a.db, "users",
                      [username |-> username,
                       password_hash |-> HashPassword(password, salt),
                       salt |-> salt, email |-> email, role |-> role,
                       is_active |-> TRUE, failed_attempts |-> 0, locked_until |-> 0,
                       last_login |-> None, last_login_formatted |-> NoText], t)
        a1 == LogAction([a EXCEPT !.db = ins.st, !.draws = salt],
                        ins.value, username, "REGISTER", TRUE, t)
        a2 == [a1 EXCEPT !.exported = Append(@, <<username, email, role, ins.value>>)]
    IN [a |-> a2, value |-> [success |-> TRUE, user_id |-> ins.value]]

\* AuthSystem.login after select_one returned found (lines 167-251)
LoginFound(a, found, username, password, t) ==
    IF found = <<>>
    THEN [a |-> LogAction(a, None, username, "LOGIN_FAILED", FALSE, t),
          value |-> Failure("Nieprawidlowa nazwa uzytkownika lub haslo.", None)]
    ELSE LET user == found[1]
         IN IF IsLocked(user, t)
            THEN [a |-> LogAction(a, user["id"], username, "LOGIN_BLOCKED", FALSE, t),
                  value |-> Failure("Konto jest zablokowane. Sprobuj za sekund: ",
                                    user["locked_until"] - t)]
            ELSE IF ~IsActive(user)
            THEN [a |-> a, value |-> Failure("Konto jest dezaktywowane.", None)]
            ELSE IF HashPassword(password, user["salt"]) # user["password_hash"]
            THEN LoginWrongPassword(a, user, username, t)
            ELSE LoginSucceeds(a, user, username, t)

\* Database.insert up to new_record (lines 161-172): <<>> when the table is missing
InsertBuild(st, table_name, record, t) ==
    IF table_name \notin DOMAIN st.data
    THEN <<>>
    ELSE <<NewRecord(st.data[table_name].auto_increment, record, t)>>

\* Database.insert, lines 174-178: the append and the counters
InsertAppend(st, table_name, new_record, t) ==
    LET table == st.data[table_name]
        records == Append(table.records, new_record)
        table1 == [table EXCEPT !.records = records,
                                !.auto_increment = @ + 1,
                                !.record_count = Len(records),
                                !.modified_at = t]
    IN [st EXCEPT !.data[table_name] = table1, !.stats.total_inserts = @ + 1]

\* the two callers
Callers == {1, 2}

\* a caller between calls; value is <<>> or <<what its last call returned>>
Idle ==
    [pc |-> "idle", calls |-> 0, op |-> "none", username |-> "", password |-> "",
     found |-> <<>>, new_record |-> <<>>, passed |-> FALSE, value |-> <<>>]

\* a caller entering a call
Enter(c, op, username, password) ==
    [Idle EXCEPT !.calls = callers[c].calls + 1, !.op = op, !.username = username,
                 !.password = password]

\* a store with a user table "t" next to the AuthSystem's tables
WithTable(a) == [a EXCEPT !.db = CreateTable(a.db, "t", <<"x">>, 0).st]

RaceSeeds == {WithTable(a) : a \in Seeds}

RaceInit ==
    /\ now = 0
    /\ returned = EmptyDict
    /\ everIds = EmptyDict
    /\ ticks = 0
    /\ callers = [c \in Callers |-> Idle]
    /\ \E a \in RaceSeeds :
          /\ db = a.db
          /\ sessions = a.sessions
          /\ current_user = a.current_user
          /\ current_session = a.current_session
          /\ draws = a.draws
          /\ exported = a.exported
          /\ boot = [history |-> Len(Rows(a, "login_history")),
                      updates |-> a.db.stats.total_updates,
                      sessions |-> Len(Rows(a, "sessions"))]

\* the state after caller c took a step that left the AuthSystem as a
RaceApply(a, c, local) ==
    /\ db' = a.db
    /\ sessions' = a.sessions
    /\ current_user' = a.current_user
    /\ current_session' = a.current_session
    /\ draws' = a.draws
    /\ exported' = a.exported
    /\ callers' = [callers EXCEPT ![c] = local]
    /\ UNCHANGED <<now, storeHistory, boot, ticks>>

CanCall(c) == callers[c].pc = "idle" /\ callers[c].calls < MaxCalls

RegisterCheckStep(c, username, password) ==
    /\ CanCall(c)
    /\ LET r == RegisterCheck(Self, username, password, now)
       IN RaceApply(r.a, c,
              [Enter(c, "register", username, password) EXCEPT
                  !.passed = r.passed,
                  !.pc = IF r.passed THEN "register_insert" ELSE "idle",
                  !.value = IF r.passed THEN <<>> ELSE <<r.value>>])

RegisterCreateStep(c) ==
    /\ callers[c].pc = "register_insert"
    /\ LET r == RegisterCreate(Self, callers[c].username, callers[c].password, "", "user", now)
       IN RaceApply(r.a, c, [callers[c] EXCEPT !.pc = "idle", !.value = <<r.value>>])

LoginSelectStep(c, username, password) ==
    /\ CanCall(c)
    /\ LET found == SelectOne(db, "users", [username |-> username], now)
       IN RaceApply([Self EXCEPT !.db = found.st], c,
              [Enter(c, "login", username, password) EXCEPT
                  !.pc = "login_found", !.found = found.value])

LoginFoundStep(c) ==
    /\ callers[c].pc = "login_found"
    /\ LET r == LoginFound(Self, callers[c].found, callers[c].username,
                           callers[c].password, now)
       IN RaceApply(r.a, c, [callers[c] EXCEPT !.pc = "idle", !.value = <<r.value>>])

InsertBuildStep(c, record) ==
    /\ CanCall(c)
    /\ LET built == InsertBuild(db, "t", record, now)
       IN RaceApply(Self, c,
              [Enter(c, "insert", "", "") EXCEPT
                  !.pc = IF built = <<>> THEN "idle" ELSE "insert_append",
                  !.new_record = built,
                  !.value = IF built = <<>> THEN <<None>> ELSE <<>>])

InsertAppendStep(c) ==
    /\ callers[c].pc = "insert_append"
    /\ RaceApply([Self EXCEPT !.db = InsertAppend(db, "t", callers[c].new_record[1], now)], c,
                 [callers[c] EXCEPT !.pc = "insert_save"])

InsertSaveStep(c) ==
    /\ callers[c].pc = "insert_save"
    /\ RaceApply([Self EXCEPT !.db = Save(db, now)], c,
                 [callers[c] EXCEPT !.pc = "idle", !.value = <<callers[c].new_record[1]["id"]>>])

RaceNext ==
    \E c \in Callers :
        \/ \E username \in Usernames, password \in {"secret1", "abc"} :
              RegisterCheckStep(c, username, password)
        \/ RegisterCreateStep(c)
        \/ \E username \in {"alice", "bob"}, password \in {"secret1", "hunter22"} :
              LoginSelectStep(c, username, password)
        \/ LoginFoundStep(c)
        \/ \E record \in {[x |-> 1], [x |-> 2]} : InsertBuildStep(c, record)
        \/ InsertAppendStep(c)
        \/ InsertSaveStep(c)

RaceSpec == RaceInit /\ [][RaceNext]_vars

\* the records of users with this username
NamedUsers(username) ==
    {i \in 1..Len(Rows(Self, "users")) : Rows(Self, "users")[i]["username"] = username}

\* both callers are in a register call for the same username, both passed
\* the existence check, and both are past their insert
BothRegistered(c1, c2) ==
    /\ c1 # c2
    /\ callers[c1].op = "register" /\ callers[c2].op = "register"
    /\ callers[c1].username = callers[c2].username
    /\ callers[c1].passed /\ callers[c2].passed
    /\ callers[c1].pc = "idle" /\ callers[c2].pc = "idle"

\* C29: concurrent registration gap: when two register calls with the same
\* username interleave at their store calls (select_one, then insert) and
\* both passed the existence check, the users table holds two records with
\* that username once both have inserted: nothing in the store refuses the
\* second one.
C29_BothPassTheCheck ==
    \A c1, c2 \in Callers :
        BothRegistered(c1, c2) => Cardinality(NamedUsers(callers[c1].username)) = 2

\* C29's case: the state where both calls passed the check and the table
\* holds two records with the username.
C29_Witness ==
    \E c1, c2 \in Callers :
        /\ BothRegistered(c1, c2)
        /\ Cardinality(NamedUsers(callers[c1].username)) = 2
        /\ callers[c1].value[1].success /\ callers[c2].value[1].success

\* both callers made one call of this operation and both have returned
BothReturned(c1, c2, op) ==
    /\ c1 # c2
    /\ callers[c1].op = op /\ callers[c2].op = op
    /\ callers[c1].calls = 1 /\ callers[c2].calls = 1
    /\ callers[c1].pc = "idle" /\ callers[c2].pc = "idle"

\* the login took the wrong-password path
WrongPassword(value) ==
    value.error \in {"Nieprawidlowe haslo. Pozostalo prob: ", "Konto zablokowane na minut: "}

Least(m, n) == IF m < n THEN m ELSE n

\* C30: under concurrent callers no increment is lost: for any interleaving
\* of two insert calls on one table the two returned ids are distinct, both
\* records are present and auto_increment has grown by 2; for any
\* interleaving of two wrong-password logins on the same account
\* failed_attempts has grown by 2.
C30_NoLostUpdates ==
    \A c1, c2 \in Callers :
        /\ BothReturned(c1, c2, "insert") =>
              /\ callers[c1].value[1] # callers[c2].value[1]
              /\ {callers[c1].value[1], callers[c2].value[1]} \subseteq Ids(db.data["t"])
              /\ db.data["t"].auto_increment =
                    Least(callers[c1].new_record[1]["id"], callers[c2].new_record[1]["id"]) + 2
        /\ ( /\ BothReturned(c1, c2, "login")
             /\ callers[c1].username = callers[c2].username
             /\ ~callers[c1].value[1].success /\ ~callers[c2].value[1].success
             /\ WrongPassword(callers[c1].value[1]) /\ WrongPassword(callers[c2].value[1]) ) =>
              UserOf(Self, callers[c1].username)["failed_attempts"] =
                 Least(callers[c1].found[1]["failed_attempts"],
                       callers[c2].found[1]["failed_attempts"]) + 2

(***************************************************************************)
(* Further claims about the authentication module (specification AuthSpec) *)
(***************************************************************************)

\* the call that left a1 appended exactly these actions to login_history,
\* each for this username, and changed no earlier entry
Appended(a1, username, actions) ==
    LET before == Rows(Self, "login_history")
        after == Rows(a1, "login_history")
    IN /\ Len(after) = Len(before) + Len(actions)
       /\ SubSeq(after, 1, Len(before)) = before
       /\ \A i \in 1..Len(actions) :
             /\ after[Len(before) + i]["action"] = actions[i]
             /\ after[Len(before) + i]["username"] = username

\* C31: each login call appends history entries according to its outcome and
\* nothing else: unknown username -> one LOGIN_FAILED with user_id null;
\* locked account -> one LOGIN_BLOCKED; wrong password below the threshold
\* -> one LOGIN_FAILED, and the reported remaining attempts are
\* MAX_FAILED_ATTEMPTS minus the new failed_attempts; wrong password
\* reaching the threshold -> one ACCOUNT_LOCKED and no LOGIN_FAILED;
\* success -> one LOGIN_SUCCESS.
C31_LoginHistoryByOutcome ==
    \A username \in Usernames, password \in Passwords :
        LET r == Login(Self, username, password, now)
            after == Rows(r.a, "login_history")
        IN IF username \notin Registered
           THEN /\ Appended(r.a, username, <<"LOGIN_FAILED">>)
                /\ after[Len(after)]["user_id"] = None
           ELSE LET user == UserOf(Self, username)
                IN IF Locked(user, now)
                   THEN Appended(r.a, username, <<"LOGIN_BLOCKED">>)
                   ELSE IF Deactivated(user)
                   THEN TRUE
                   ELSE IF ~CorrectPassword(user, password)
                   THEN IF user["failed_attempts"] + 1 < MAX_FAILED_ATTEMPTS
                        THEN /\ Appended(r.a, username, <<"LOGIN_FAILED">>)
                             /\ r.value.error = RemainingMessage
                             /\ r.value.n = MAX_FAILED_ATTEMPTS
                                              - UserOf(r.a, username)["failed_attempts"]
                             /\ UserOf(r.a, username)["failed_attempts"]
                                   = user["failed_attempts"] + 1
                        ELSE Appended(r.a, username, <<"ACCOUNT_LOCKED">>)
                   ELSE /\ r.value.success
                        /\ Appended(r.a, username, <<"LOGIN_SUCCESS">>)

\* C31's case: a login that reached the threshold and a login on the locked
\* account were made, and left ACCOUNT_LOCKED and LOGIN_BLOCKED.
C31_Witness ==
    /\ Len(Rows(Self, "login_history")) = boot.history + 2
    /\ LastEntries(Self, 2)[1]["action"] = "ACCOUNT_LOCKED"
    /\ LastEntries(Self, 2)[2]["action"] = "LOGIN_BLOCKED"

\* C32: a login on a deactivated account (is_active = false) is rejected
\* without appending any login_history entry and without changing the user
\* record, whatever the account's lockout fields are (locked_until in the
\* future included).
C32_DeactivatedLoginLeavesNoTrace ==
    \A username \in Registered, password \in Passwords :
        Deactivated(UserOf(Self, username)) =>
            LET r == Login(Self, username, password, now)
            IN /\ ~r.value.success
               /\ Rows(r.a, "login_history") = Rows(Self, "login_history")
               /\ Rows(r.a, "users") = Rows(Self, "users")

\* C33: get_active_sessions returns exactly the registry entries with
\* now <= expires_at and removes from the registry every entry with
\* now > expires_at; it does not refresh expires_at or last_activity of the
\* entries it keeps, and it changes no table of the store.
C33_ListingFiltersTheRegistry ==
    LET r == GetActiveSessions(Self, now)
        live == {token \in DOMAIN sessions : now <= sessions[token].expires_at}
    IN /\ DOMAIN r.value = live
       /\ \A token \in live :
             /\ r.value[token].username = sessions[token].username
             /\ r.value[token].role = sessions[token].role
             /\ r.value[token].expires_at = Strftime(sessions[token].expires_at)
             /\ r.value[token].last_activity = Strftime(sessions[token].last_activity)
       /\ DOMAIN r.a.sessions = live
       /\ \A token \in live : r.a.sessions[token] = sessions[token]
       /\ r.a.db = db

\* C33's case: a listing was made that dropped an expired session and kept a
\* live one (only a listing leaves the durable row of a dropped token active).
C33_Witness ==
    /\ \E i \in 1..Len(OwnSessionRows) :
          /\ OwnSessionRows[i]["is_active"] = TRUE
          /\ OwnSessionRows[i]["token"] \notin DOMAIN sessions
    /\ \E token \in DOMAIN sessions : now <= sessions[token].expires_at

\* C34: in every reachable state every user record has
\* 0 <= failed_attempts <= MAX_FAILED_ATTEMPTS.
C34_FailedAttemptsBounded ==
    \A i \in 1..Len(Rows(Self, "users")) :
        /\ 0 <= Rows(Self, "users")[i]["failed_attempts"]
        /\ Rows(Self, "users")[i]["failed_attempts"] <= MAX_FAILED_ATTEMPTS

\* C35: lockout and deactivation guard change_password too: for an account
\* that is LOCKED or deactivated the call is rejected and password_hash and
\* salt stay; and a call with a wrong old password counts as a failed
\* attempt, it increments failed_attempts.
C35_ChangePasswordIsGuarded ==
    \A username \in Registered, old_password \in Passwords, new_password \in Passwords :
        LET user == UserOf(Self, username)
            r == ChangePassword(Self, username, old_password, new_password, now)
        IN /\ (Locked(user, now) \/ Deactivated(user)) =>
                 /\ ~r.value.success
                 /\ UserOf(r.a, username)["password_hash"] = user["password_hash"]
                 /\ UserOf(r.a, username)["salt"] = user["salt"]
           /\ (~Locked(user, now) /\ ~Deactivated(user) /\ ~CorrectPassword(user, old_password)) =>
                 /\ ~r.value.success
                 /\ UserOf(r.a, username)["failed_attempts"] = user["failed_attempts"] + 1

\* C36: the current-session pointer is consistent with the registry:
\* current_session is None or a token of the registry, and logout(t) or an
\* expired validate_session(t) for a token t other than current_session
\* leaves current_session and current_user unchanged.
C36_CurrentSessionInRegistry ==
    /\ current_session = None \/ current_session \in DOMAIN sessions
    /\ \A token \in DOMAIN sessions :
          token # current_session =>
             /\ Logout(Self, token, now).a.current_session = current_session
             /\ Logout(Self, token, now).a.current_user = current_user
             /\ now > sessions[token].expires_at =>
                   /\ ValidateSession(Self, token, now).a.current_session = current_session
                   /\ ValidateSession(Self, token, now).a.current_user = current_user

\* the call changed no table of the store
SameTables(a1) == \A n \in DOMAIN db.data : a1.db.data[n].records = db.data[n].records

\* C37: with a valid admin token, deactivate_user and activate_user for a
\* username that does not exist both return a failure and change no table;
\* for an existing username deactivate_user sets only is_active = false and
\* appends one ACCOUNT_DEACTIVATED entry, and activate_user sets
\* is_active = true, failed_attempts = 0 and locked_until = 0.
C37_AdminOperationsOnUsers ==
    \A token \in DOMAIN sessions, username \in Usernames :
        ValidAdminSession(token) =>
            LET d == DeactivateUser(Self, token, username, now)
                e == ActivateUser(Self, token, username, now)
            IN IF username \notin Registered
               THEN /\ ~d.value.success /\ SameTables(d.a)
                    /\ ~e.value.success /\ SameTables(e.a)
               ELSE /\ d.value.success
                    /\ UserOf(d.a, username) =
                          Merge(UserOf(Self, username),
                                [is_active |-> FALSE, _modified_at |-> now,
                                 _modified_at_formatted |-> Strftime(now)])
                    /\ Appended(d.a, username, <<"ACCOUNT_DEACTIVATED">>)
                    /\ e.value.success
                    /\ UserOf(e.a, username)["is_active"] = TRUE
                    /\ UserOf(e.a, username)["failed_attempts"] = 0
                    /\ UserOf(e.a, username)["locked_until"] = 0

(***************************************************************************)
(* Further claims about the record store (specification Spec)              *)
(***************************************************************************)

\* conditions that require no None (those are the case of C15)
PlainConditions == {c \in Conditions : \A k \in DOMAIN c : c[k] # None}

\* the records of the table that satisfy every condition, in insertion order
Matching(table, conditions) ==
    SelectSeq2(table.records,
               {r \in {table.records[i] : i \in 1..Len(table.records)} : HasAll(r, conditions)})

\* s and u hold the same records, each as often
SameRecords(s, u) ==
    /\ Len(s) = Len(u)
    /\ \A r \in {s[i] : i \in 1..Len(s)} :
          Cardinality({i \in 1..Len(s) : s[i] = r}) = Cardinality({i \in 1..Len(u) : u[i] = r})

\* C38: select applies filter, then sort, then limit: with order_by f it
\* returns the matching records ascending by f (descending for '-f'), also
\* for tables where some records lack f and others hold numbers; with
\* limit L >= 0 it returns the first min(L, number of matches) records of
\* that order, never more than L; select_one returns the first match in
\* insertion order or null; select changes no table.
C38_SelectFiltersSortsLimits ==
    \A name \in DOMAIN db.data, conditions \in PlainConditions :
        LET matches == Matching(db.data[name], conditions)
            one == SelectOne(db, name, conditions, now)
        IN /\ one.value = Take(matches, 1)
           /\ one.st = db
           /\ \A order_by \in OrderBys :
                 LET all == SelectOrderBy(db, name, conditions, None, order_by, now)
                     f == SortField(order_by)
                 IN /\ ~all.raised
                    /\ all.st = db
                    /\ SameRecords(all.value, matches)
                    /\ order_by = "" => all.value = matches
                    /\ order_by # "" =>
                          \A i, j \in 1..Len(all.value) :
                              ( /\ i < j
                                /\ KeyType(all.value[i], f) = "int"
                                /\ KeyType(all.value[j], f) = "int" ) =>
                                 IF Descending(order_by)
                                 THEN all.value[i][f] >= all.value[j][f]
                                 ELSE all.value[i][f] <= all.value[j][f]
                    /\ \A limit \in 0..2 :
                          LET r == SelectOrderBy(db, name, conditions, limit, order_by, now)
                          IN /\ ~r.raised
                             /\ r.st = db
                             /\ r.value = Take(all.value, limit)

\* The store after an operation whose _save raised: the statements before
\* _save are done, so memory is as the operation leaves it; the document is
\* the old one when open() raised, and cut short when json.dump raised.
FailedSaves(st, after) ==
    {[after EXCEPT !.file = file] :
        file \in {st.file, [st.file EXCEPT !.exists = TRUE, !.content = "garbage"]}}

\* the failed write left memory as it was before the call
NoEffect(st1) == st1.data = db.data /\ st1.stats = db.stats

\* C39: a mutating store operation whose persistence write fails has no
\* effect: after a failed write in insert, update, delete, create_table or
\* drop_table the in-memory tables and the stats counters are the same as
\* before the call, and a retry of insert gets the same id.
C39_FailedWriteHasNoEffect ==
    \A name \in AnyTableNames :
        /\ \A record \in Records :
              LET r == Insert(db, name, record, now)
              IN Saved(db, r.st) =>
                    \A st1 \in FailedSaves(db, r.st) :
                        /\ NoEffect(st1)
                        /\ Insert(st1, name, record, now).value = r.value
        /\ \A conditions \in Conditions :
              /\ \A new_values \in NewValues :
                    LET r == Update(db, name, conditions, new_values, now)
                    IN Saved(db, r.st) => \A st1 \in FailedSaves(db, r.st) : NoEffect(st1)
              /\ LET r == Delete(db, name, conditions, now)
                 IN Saved(db, r.st) => \A st1 \in FailedSaves(db, r.st) : NoEffect(st1)
        /\ LET r == CreateTable(db, name, <<"x">>, now)
           IN Saved(db, r.st) => \A st1 \in FailedSaves(db, r.st) : NoEffect(st1)
        /\ LET r == DropTable(db, name, now)
           IN Saved(db, r.st) => \A st1 \in FailedSaves(db, r.st) : NoEffect(st1)

\* sum(t["record_count"] for t in self.data.values())
RECURSIVE SumRecordCounts(_, _)
SumRecordCounts(data, names) ==
    IF names = {}
    THEN 0
    ELSE LET n == CHOOSE n \in names : TRUE
         IN data[n].record_count + SumRecordCounts(data, names \ {n})

\* Database.get_stats: the counts it reports
GetStats(st) ==
    [tables_count |-> Cardinality(DOMAIN st.data),
     total_records |-> SumRecordCounts(st.data, DOMAIN st.data),
     total_inserts |-> st.stats.total_inserts,
     total_updates |-> st.stats.total_updates,
     total_deletes |-> st.stats.total_deletes]

\* the number of records stored in these tables
RECURSIVE Stored(_, _)
Stored(data, names) ==
    IF names = {}
    THEN 0
    ELSE LET n == CHOOSE n \in names : TRUE
         IN Len(data[n].records) + Stored(data, names \ {n})

\* the records of the table that fail some condition, in their order
NotMatching(table, conditions) ==
    SelectSeq2(table.records,
               {r \in {table.records[i] : i \in 1..Len(table.records)} : ~HasAll(r, conditions)})

\* C40: delete removes exactly the records matching every condition (all of
\* them for empty conditions), keeps the others in their order and returns
\* the number removed; in every reachable state each table's record_count
\* is the length of its records, get_stats().total_records is the number of
\* stored records, and total_inserts, total_updates and total_deletes never
\* decrease and grow by exactly the number of records inserted, updated and
\* deleted.
C40_DeleteAndCounters ==
    /\ \A name \in DOMAIN db.data : db.data[name].record_count = Len(db.data[name].records)
    /\ GetStats(db).total_records = Stored(db.data, DOMAIN db.data)
    /\ GetStats(Reopen(db, now)) = GetStats(db)
    /\ \A name \in DOMAIN db.data :
          /\ \A conditions \in Conditions :
                /\ LET r == Delete(db, name, conditions, now)
                   IN /\ r.st.data[name].records = NotMatching(db.data[name], conditions)
                      /\ r.value = Len(db.data[name].records) - Len(r.st.data[name].records)
                      /\ GetStats(r.st) =
                            [GetStats(db) EXCEPT !.total_deletes = @ + r.value,
                                                 !.total_records = @ - r.value]
                /\ \A new_values \in NewValues :
                      LET r == Update(db, name, conditions, new_values, now)
                      IN GetStats(r.st) = [GetStats(db) EXCEPT !.total_updates = @ + r.value]
          /\ \A record \in Records :
                LET r == Insert(db, name, record, now)
                IN GetStats(r.st) =
                      [GetStats(db) EXCEPT !.total_inserts = @ + 1, !.total_records = @ + 1]

====
